---------------------------- MODULE Spec2Model ----------------------------
(***************************************************************************)
(* A model of the skew tiling window manager: the layout manager with its  *)
(* BSP tree (src/src/layout.rs), the snap manager (src/src/snap.rs) and    *)
(* the window manager's event loop (src/src/window_manager.rs) together    *)
(* with the host tasks that feed it (src/src/macos).                       *)
(*                                                                         *)
(* Numbers.  Every f64 of the source is represented by an integer count of *)
(* 1/Unit pixel, Unit a power of two.  With the screens, gaps and split    *)
(* ratios the model draws from, every product and quotient the BSP code    *)
(* forms is a multiple of 1/Unit, so the integer arithmetic is the f64     *)
(* arithmetic, exactly.  A split ratio is a number of hundredths.          *)
(***************************************************************************)
EXTENDS Integers, Sequences, FiniteSets, TLC

\* ------------------------------------------------------------- bounds ----
MaxWin == 3          \* window ids are 1..MaxWin
MaxHost == 2         \* the host's windows are 1..MaxHost
MaxQueue == 2        \* messages a channel holds at a time
MaxInputs == 2       \* user gestures and commands in a run

\* ----------------------------------------------------- representation ----
Unit == 2 ^ 6        \* one pixel
RatioDen == 10 * 10  \* a split ratio r stands for r / RatioDen
Px(n) == n * Unit
Times(v, r) == (v * r) \div RatioDen     \* v * ratio
Half(v) == v \div 2                      \* v / 2.0
Abs(v) == IF v < 0 THEN 0 - v ELSE v
Min(a, b) == IF a < b THEN a ELSE b
Max(a, b) == IF a > b THEN a ELSE b
Injective(s) == \A i, j \in DOMAIN s : i # j => s[i] # s[j]

WindowId == 1 .. MaxWin
NoWindow == 0        \* Option<WindowId>::None
NoNode == [none |-> TRUE]                \* Option<Box<BSPNode>>::None

Rect(x, y, w, h) == [x |-> x, y |-> y, width |-> w, height |-> h]
PxRect(x, y, w, h) == Rect(Px(x), Px(y), Px(w), Px(h))
ZeroRect == Rect(0, 0, 0, 0)

LayoutType == {"BSP", "Stack", "Float", "Grid", "Spiral", "Column", "Monocle"}

\* The configurations the model starts from.
Screens == {PxRect(0, 0, 1000, 800), PxRect(0, 0, 1600, 1000)}
Gaps == {0, Px(10)}
SplitRatios == {25, 50}
DefaultSplit == 50
DefaultGap == Px(10)

VARIABLES
    \* LayoutManager
    current_layout, bsp_root, split_ratio,
    \* configuration and host geometry
    screen_rect, gap,
    \* the last LayoutManager call and what it returned
    op, layouts,
    \* the ids the callers asked the BSP tree to hold
    expected

layoutVars == <<current_layout, bsp_root, split_ratio, screen_rect, gap,
                op, layouts, expected>>

VARIABLES
    \* the host: its windows, the monitoring task's last_windows, the drag
    \* observer's dragging_windows
    host, last_windows, dragging_windows,
    \* the three channels of the window manager
    event_q, command_q, drag_q,
    \* WindowManager and its SnapManager
    windows, current_workspace, programmatically_moving, user_dragging_windows,
    previous_window_positions, window_drag_states,
    \* where run is; whether a Quit command has been taken
    pc, quit_requested,
    \* what the loop's last iteration did; the inputs spent so far
    obs, spent,
    \* the answers the host may give to a set-rectangle call
    host_answers

configVars == <<split_ratio, screen_rect, gap, op, layouts, expected, host_answers>>
engineSelf == <<windows, current_workspace, programmatically_moving,
                user_dragging_windows, previous_window_positions,
                window_drag_states, current_layout, bsp_root>>
engineVars == <<host, last_windows, dragging_windows, event_q, command_q, drag_q,
                windows, current_workspace, programmatically_moving,
                user_dragging_windows, previous_window_positions,
                window_drag_states, pc, quit_requested, obs, spent, host_answers>>
vars == <<layoutVars, engineVars>>

\* ------------------------------------------------------------ BSPNode ----
new_leaf(window_id, rect) ==
    [rect |-> rect, split_ratio |-> DefaultSplit, is_horizontal |-> TRUE,
     window_id |-> window_id, left |-> NoNode, right |-> NoNode]

is_leaf(node) == node.left = NoNode /\ node.right = NoNode

\* child_rects with the second child given the whole extent.
child_rects_full_right(node) ==
    IF node.is_horizontal
    THEN LET left_width == Times(node.rect.width, node.split_ratio)
         IN  <<Rect(node.rect.x, node.rect.y, left_width, node.rect.height),
               Rect(node.rect.x + left_width, node.rect.y, node.rect.width,
                    node.rect.height)>>
    ELSE LET left_height == Times(node.rect.height, node.split_ratio)
         IN  <<Rect(node.rect.x, node.rect.y, node.rect.width, left_height),
               Rect(node.rect.x, node.rect.y + left_height, node.rect.width,
                    node.rect.height)>>

\* The two rectangles update_child_rects gives the children of `node`.
child_rects(node) ==
    IF node.is_horizontal
    THEN LET left_width == Times(node.rect.width, node.split_ratio)
             right_width == node.rect.width - left_width
         IN  <<Rect(node.rect.x, node.rect.y, left_width, node.rect.height),
               Rect(node.rect.x + left_width, node.rect.y, right_width,
                    node.rect.height)>>
    ELSE LET left_height == Times(node.rect.height, node.split_ratio)
             right_height == node.rect.height - left_height
         IN  <<Rect(node.rect.x, node.rect.y, node.rect.width, left_height),
               Rect(node.rect.x, node.rect.y + left_height, node.rect.width,
                    right_height)>>

RECURSIVE update_rect(_, _)
update_child_rects(node) ==
    IF node.left # NoNode /\ node.right # NoNode
    THEN LET rs == child_rects(node)
         IN  [node EXCEPT !.left = update_rect(node.left, rs[1]),
                          !.right = update_rect(node.right, rs[2])]
    ELSE node

update_rect(node, rect) == update_child_rects([node EXCEPT !.rect = rect])

\* should_split_horizontal with the parity swapped.
should_split_horizontal_odd(depth) == depth % 2 = 1

should_split_horizontal(depth) == depth % 2 = 0

RECURSIVE insert_window_with_depth(_, _, _, _)
insert_window_with_depth(node, window_id, ratio, depth) ==
    IF is_leaf(node)
    THEN IF node.window_id # NoWindow
         THEN update_child_rects(
                [node EXCEPT !.window_id = NoWindow,
                             !.split_ratio = ratio,
                             !.is_horizontal = should_split_horizontal(depth),
                             !.left = new_leaf(node.window_id, ZeroRect),
                             !.right = new_leaf(window_id, ZeroRect)])
         ELSE [node EXCEPT !.window_id = window_id]
    ELSE IF node.right # NoNode
         THEN [node EXCEPT !.right =
                  insert_window_with_depth(node.right, window_id, ratio, depth + 1)]
         ELSE IF node.left # NoNode
              THEN [node EXCEPT !.left =
                      insert_window_with_depth(node.left, window_id, ratio, depth + 1)]
              ELSE node

insert_window(node, window_id, ratio) ==
    insert_window_with_depth(node, window_id, ratio, 0)

RECURSIVE count_windows(_)
count_windows(node) ==
    IF is_leaf(node)
    THEN IF node.window_id # NoWindow THEN 1 ELSE 0
    ELSE (IF node.left = NoNode THEN 0 ELSE count_windows(node.left))
         + (IF node.right = NoNode THEN 0 ELSE count_windows(node.right))

\* collapse_if_needed that collapses nothing.
collapse_never(node) == node

\* collapse_if_needed promoting the emptied child instead of its sibling.
collapse_promotes_emptied(node) ==
    LET left_empty == node.left = NoNode \/ count_windows(node.left) = 0
        right_empty == node.right = NoNode \/ count_windows(node.right) = 0
    IN  IF left_empty /\ right_empty
        THEN [node EXCEPT !.left = NoNode, !.right = NoNode, !.window_id = NoWindow]
        ELSE IF left_empty THEN node.left
             ELSE IF right_empty THEN node.right
                  ELSE node

collapse_if_needed(node) ==
    LET left_empty == node.left = NoNode \/ count_windows(node.left) = 0
        right_empty == node.right = NoNode \/ count_windows(node.right) = 0
    IN  IF left_empty /\ right_empty
        THEN [node EXCEPT !.left = NoNode, !.right = NoNode, !.window_id = NoWindow]
        ELSE IF left_empty
             THEN (IF node.right # NoNode THEN node.right ELSE node)
             ELSE IF right_empty
                  THEN (IF node.left # NoNode THEN node.left ELSE node)
                  ELSE node

\* remove_window gives the node as it is left and the bool it returns.
RECURSIVE remove_window(_, _)
remove_window(node, window_id) ==
    IF is_leaf(node)
    THEN IF node.window_id = window_id
         THEN [node |-> [node EXCEPT !.window_id = NoWindow], removed |-> TRUE]
         ELSE [node |-> node, removed |-> FALSE]
    ELSE LET l == IF node.left = NoNode
                  THEN [node |-> NoNode, removed |-> FALSE]
                  ELSE remove_window(node.left, window_id)
             r == IF node.right = NoNode
                  THEN [node |-> NoNode, removed |-> FALSE]
                  ELSE remove_window(node.right, window_id)
             after == [node EXCEPT !.left = l.node, !.right = r.node]
         IN  IF l.removed \/ r.removed
             THEN [node |-> collapse_if_needed(after), removed |-> TRUE]
             ELSE [node |-> after, removed |-> FALSE]

RECURSIVE contains_window(_, _)
contains_window(node, window_id) ==
    IF is_leaf(node)
    THEN node.window_id = window_id
    ELSE \/ node.left # NoNode /\ contains_window(node.left, window_id)
         \/ node.right # NoNode /\ contains_window(node.right, window_id)

\* The (id, rect) pairs in the order collect_rects_recursive inserts them.
RECURSIVE collect_rects_recursive(_, _)
collect_rects_recursive(node, g) ==
    IF node.window_id # NoWindow
    THEN << <<node.window_id,
              Rect(node.rect.x + Half(g), node.rect.y + Half(g),
                   node.rect.width - g, node.rect.height - g)>> >>
    ELSE (IF node.left = NoNode THEN <<>> ELSE collect_rects_recursive(node.left, g))
         \o (IF node.right = NoNode THEN <<>> ELSE collect_rects_recursive(node.right, g))

\* HashMap::insert over a sequence of pairs: a later pair replaces an earlier one.
MapOf(pairs) ==
    [k \in {pairs[i][1] : i \in DOMAIN pairs} |->
        LET last == CHOOSE i \in DOMAIN pairs :
                       /\ pairs[i][1] = k
                       /\ \A j \in DOMAIN pairs : pairs[j][1] = k => j <= i
        IN  pairs[last][2]]

EmptyMap == MapOf(<<>>)

collect_window_rects(node, g) == MapOf(collect_rects_recursive(node, g))


\* ------------------------------------------------------ LayoutManager ----
\* A window list is a sequence of records [id, rect]; RECURSIVE folds stand
\* for the for-loops of compute_bsp_layout.
RECURSIVE collect_all_windows_static(_)
collect_all_windows_static(node) ==
    (IF node.window_id # NoWindow THEN <<node.window_id>> ELSE <<>>)
    \o (IF node.left = NoNode THEN <<>> ELSE collect_all_windows_static(node.left))
    \o (IF node.right = NoNode THEN <<>> ELSE collect_all_windows_static(node.right))

\* remove_absent that prunes nothing.
remove_absent_none(root, to_remove, window_ids) == root

RECURSIVE remove_absent(_, _, _)
remove_absent(root, to_remove, window_ids) ==
    IF to_remove = <<>>
    THEN root
    ELSE remove_absent(
            IF Head(to_remove) \notin window_ids
            THEN remove_window(root, Head(to_remove)).node
            ELSE root,
            Tail(to_remove), window_ids)

\* insert_missing that adds nothing.
insert_missing_none(root, window_list, ratio) == root

RECURSIVE insert_missing(_, _, _)
insert_missing(root, window_list, ratio) ==
    IF window_list = <<>>
    THEN root
    ELSE insert_missing(
            IF ~contains_window(root, Head(window_list).id)
            THEN insert_window(root, Head(window_list).id, ratio)
            ELSE root,
            Tail(window_list), ratio)

RECURSIVE insert_all(_, _, _)
insert_all(root, window_list, ratio) ==
    IF window_list = <<>>
    THEN root
    ELSE insert_all(insert_window(root, Head(window_list).id, ratio), Tail(window_list), ratio)

\* Every compute_* gives [root |-> the bsp_root it leaves, rects |-> its result].
compute_bsp_layout(root, window_list, screen, ratio, g) ==
    IF window_list = <<>>
    THEN [root |-> NoNode, rects |-> EmptyMap]
    ELSE LET window_ids == {window_list[i].id : i \in DOMAIN window_list}
             synced ==
                IF root # NoNode
                THEN LET pruned == remove_absent(root, collect_all_windows_static(root),
                                                 window_ids)
                         grown == insert_missing(pruned, window_list, ratio)
                         placed == update_rect(grown, screen)
                     IN  IF count_windows(placed) = 0 THEN NoNode ELSE placed
                ELSE NoNode
             built ==
                IF synced = NoNode
                THEN insert_all(new_leaf(window_list[1].id, screen), Tail(window_list), ratio)
                ELSE synced
         IN  [root |-> built, rects |-> collect_window_rects(built, g)]

compute_stack_layout(root, window_list, screen, ratio, g) ==
    LET n == Len(window_list)
        master_width == Times(screen.width, ratio)
        stack_width == screen.width - master_width
        stack_height == screen.height \div (n - 1)
        tile(i) ==
            IF i = 1
            THEN Rect(screen.x + Half(g), screen.y + Half(g),
                      master_width - g, screen.height - g)
            ELSE Rect(screen.x + master_width + Half(g),
                      screen.y + (i - 2) * stack_height + Half(g),
                      stack_width - g, stack_height - g)
    IN  [root |-> root,
         rects |->
            IF n = 0 THEN EmptyMap
            ELSE IF n = 1
                 THEN MapOf(<< <<window_list[1].id,
                                 Rect(screen.x + g, screen.y + g,
                                      screen.width - 2 * g, screen.height - 2 * g)>> >>)
                 ELSE MapOf([i \in 1 .. n |-> <<window_list[i].id, tile(i)>>])]

compute_float_layout(root, window_list, screen, ratio, g) ==
    [root |-> root,
     rects |-> MapOf([i \in 1 .. Len(window_list) |-> <<window_list[i].id, window_list[i].rect>>])]

\* (n as f64).sqrt().ceil()
CeilSqrt(n) == CHOOSE c \in 0 .. n : c * c >= n /\ (c = 0 \/ (c - 1) * (c - 1) < n)

compute_grid_layout(root, window_list, screen, ratio, g) ==
    LET n == Len(window_list)
        cols == CeilSqrt(n)
        rows == (n + cols - 1) \div cols
        cell_width == (screen.width - g * (cols + 1)) \div cols
        cell_height == (screen.height - g * (rows + 1)) \div rows
        tile(i) ==
            LET row == (i - 1) \div cols
                col == (i - 1) % cols
            IN  Rect(screen.x + g + col * (cell_width + g),
                     screen.y + g + row * (cell_height + g),
                     cell_width, cell_height)
    IN  [root |-> root,
         rects |-> IF n = 0 THEN EmptyMap
                   ELSE MapOf([i \in 1 .. n |-> <<window_list[i].id, tile(i)>>])]

compute_spiral_layout(root, window_list, screen, ratio, g) ==
    LET n == Len(window_list)
        side_width == Times(screen.width, RatioDen - ratio)
        side_height_per_window == screen.height \div (n - 1)
        tile(i) ==
            IF i = 1
            THEN Rect(screen.x + Half(g), screen.y + Half(g),
                      Times(screen.width, ratio) - g, screen.height - g)
            ELSE Rect(screen.x + Times(screen.width, ratio) + Half(g),
                      screen.y + (i - 2) * side_height_per_window + Half(g),
                      side_width - g, side_height_per_window - g)
    IN  [root |-> root,
         rects |->
            IF n = 0 THEN EmptyMap
            ELSE IF n = 1
                 THEN MapOf(<< <<window_list[1].id,
                                 Rect(screen.x + g, screen.y + g,
                                      screen.width - 2 * g, screen.height - 2 * g)>> >>)
                 ELSE MapOf([i \in 1 .. n |-> <<window_list[i].id, tile(i)>>])]

\* compute_column_layout with every column placed at the first column's x.
compute_column_layout_stacked(root, window_list, screen, ratio, g) ==
    LET n == Len(window_list)
        window_width == (screen.width - g * (n + 1)) \div n
        tile(i) == Rect(screen.x + g, screen.y + g, window_width, screen.height - 2 * g)
    IN  [root |-> root,
         rects |-> IF n = 0 THEN EmptyMap
                   ELSE MapOf([i \in 1 .. n |-> <<window_list[i].id, tile(i)>>])]

compute_column_layout(root, window_list, screen, ratio, g) ==
    LET n == Len(window_list)
        window_width == (screen.width - g * (n + 1)) \div n
        tile(i) == Rect(screen.x + g + (i - 1) * (window_width + g), screen.y + g,
                        window_width, screen.height - 2 * g)
    IN  [root |-> root,
         rects |-> IF n = 0 THEN EmptyMap
                   ELSE MapOf([i \in 1 .. n |-> <<window_list[i].id, tile(i)>>])]

compute_monocle_layout(root, window_list, screen, ratio, g) ==
    LET fullscreen_rect == Rect(screen.x + g, screen.y + g,
                                screen.width - 2 * g, screen.height - 2 * g)
    IN  [root |-> root,
         rects |-> MapOf([i \in 1 .. Len(window_list) |-> <<window_list[i].id, fullscreen_rect>>])]

compute_layout(layout, root, window_list, screen, ratio, g) ==
    CASE layout = "BSP" -> compute_bsp_layout(root, window_list, screen, ratio, g)
      [] layout = "Stack" -> compute_stack_layout(root, window_list, screen, ratio, g)
      [] layout = "Float" -> compute_float_layout(root, window_list, screen, ratio, g)
      [] layout = "Grid" -> compute_grid_layout(root, window_list, screen, ratio, g)
      [] layout = "Spiral" -> compute_spiral_layout(root, window_list, screen, ratio, g)
      [] layout = "Column" -> compute_column_layout(root, window_list, screen, ratio, g)
      [] layout = "Monocle" -> compute_monocle_layout(root, window_list, screen, ratio, g)

\* LayoutManager::add_window and LayoutManager::remove_window: the bsp_root they leave.
add_window(layout, root, window_id, screen, ratio) ==
    IF layout = "BSP"
    THEN IF root # NoNode
         THEN update_rect(insert_window(root, window_id, ratio), screen)
         ELSE new_leaf(window_id, screen)
    ELSE root

\* LayoutManager::remove_window without the update_rect that follows the removal.
layout_remove_window_stale(layout, root, window_id, screen) ==
    IF layout = "BSP" /\ root # NoNode
    THEN LET after == remove_window(root, window_id).node
         IN  IF count_windows(after) = 0 THEN NoNode ELSE after
    ELSE root

layout_remove_window(layout, root, window_id, screen) ==
    IF layout = "BSP" /\ root # NoNode
    THEN LET after == remove_window(root, window_id).node
         IN  IF count_windows(after) = 0 THEN NoNode ELSE update_rect(after, screen)
    ELSE root

\* toggle_layout with Float followed by Stack.
toggle_layout_skips_bsp(layout) ==
    CASE layout = "BSP" -> "Stack"
      [] layout = "Stack" -> "Grid"
      [] layout = "Grid" -> "Spiral"
      [] layout = "Spiral" -> "Column"
      [] layout = "Column" -> "Monocle"
      [] layout = "Monocle" -> "Float"
      [] layout = "Float" -> "Stack"

toggle_layout(layout) ==
    CASE layout = "BSP" -> "Stack"
      [] layout = "Stack" -> "Grid"
      [] layout = "Grid" -> "Spiral"
      [] layout = "Spiral" -> "Column"
      [] layout = "Column" -> "Monocle"
      [] layout = "Monocle" -> "Float"
      [] layout = "Float" -> "BSP"


\* The rectangle a window has by itself.
OwnRect(id) == PxRect(100 * id, 100, 400, 300)

\* ------------------------------------------------------ the host side ----
\* The host's windows: host[id] is Absent or [rect, by], `by` naming who wrote
\* the rectangle last ("user" or "engine").  Every window is the only window
\* of its application, so the per-application matching of move_all_windows
\* pairs a window with itself.
HostIds == 1 .. MaxHost
Absent == [absent |-> TRUE]
FirstWorkspace == 1

SpotCenter == PxRect(400, 250, 400, 300)     \* centre (600, 400): Center zone
SpotNear == PxRect(410, 250, 400, 300)       \* 10 px from SpotCenter
SpotWest == PxRect(20, 300, 200, 200)        \* centre (120, 400): West zone
SpotNone == PxRect(75, 300, 200, 200)        \* centre (175, 400): no zone
Spots == {SpotCenter, SpotNear, SpotWest, SpotNone}
CommandRects == {SpotWest}
\* Up and Down run the same code as Left and Right on the other coordinate.
Directions == {"Left", "Right"}

Put(m, k, v) == [x \in DOMAIN m \cup {k} |-> IF x = k THEN v ELSE m[x]]
Remove(m, k) == [x \in DOMAIN m \ {k} |-> m[x]]
Perms(S) == {q \in [1 .. Cardinality(S) -> S] : Injective(q)}
\* The members of S in the order `ord` lists them: one iteration of a HashMap
\* or of the host's window list.
InOrder(ord, S) == SelectSeq(ord, LAMBDA x : x \in S)

\* CGWindowInfo::get_all_windows: the host's windows as Window values.
host_window(id, rect) ==
    [id |-> id, rect |-> rect, is_minimized |-> FALSE, is_focused |-> FALSE,
     workspace_id |-> FirstWorkspace]

get_windows(h) ==
    [id \in {i \in HostIds : h[i] # Absent} |-> host_window(id, h[id].rect)]

\* AccessibilityManager::set_window_rect on the element of window id, when the
\* host accepts it (ok) and the window still exists.
set_window_rect(h, id, rect, ok) ==
    IF ~ok \/ h[id] = Absent \/ h[id].rect = rect
    THEN h
    ELSE [h EXCEPT ![id] = [rect |-> rect, by |-> "engine"]]

\* MacOSWindowSystem::detect_window_changes: the events one poll sends, the new
\* windows in the order `ord` of the host's list, then the vanished ones.
detect_window_changes(old, new, ord) ==
    LET fresh == {id \in HostIds : new[id] # Absent /\ old[id] = Absent}
        moved == {id \in HostIds : new[id] # Absent /\ old[id] # Absent
                                   /\ old[id] # new[id].rect}
        gone == {id \in HostIds : new[id] = Absent /\ old[id] # Absent}
        seen == InOrder(ord, fresh \cup moved)
        lost == InOrder(ord, gone)
    IN  [i \in DOMAIN seen |->
            [type |-> IF seen[i] \in fresh THEN "WindowCreated" ELSE "WindowMoved",
             id |-> seen[i], rect |-> new[seen[i]].rect, cause |-> new[seen[i]].by]]
        \o [i \in DOMAIN lost |->
            [type |-> "WindowDestroyed", id |-> lost[i], rect |-> ZeroRect,
             cause |-> "user"]]

\* ------------------------------------------------------- SnapManager ----
edge_zone_width == Px(150)
corner_size == Px(100)
margin == Px(8)
snap_threshold == Px(50)

\* A zone configuration value: a literal fraction (hundredths) or a length.
Frac(n) == [num |-> n, den |-> RatioDen]
Len64(v) == [num |-> v, den |-> Unit]

create_absolute_zone_rect(screen, config) ==
    LET le_one(c) == c.num <= c.den
        scaled(extent, c) == (extent * c.num) \div c.den
        absolute(c) == (c.num * Unit) \div c.den
    IN  Rect(IF le_one(config[1]) THEN screen.x + scaled(screen.width, config[1])
                                  ELSE screen.x + absolute(config[1]),
             IF le_one(config[2]) THEN screen.y + scaled(screen.height, config[2])
                                  ELSE screen.y + absolute(config[2]),
             IF le_one(config[3]) THEN scaled(screen.width, config[3])
                                  ELSE absolute(config[3]),
             IF le_one(config[4]) THEN scaled(screen.height, config[4])
                                  ELSE absolute(config[4]))

\* update_snap_zones: the zones in the order they are pushed.
snap_zones(screen) ==
    LET w == screen.width
        h == screen.height
        zone(region, b, s) ==
            [region |-> region,
             bounds |-> create_absolute_zone_rect(screen, b),
             snap_rect |-> create_absolute_zone_rect(screen, s)]
        L(v) == Len64(v)
    IN  << zone("Center", <<Frac(20), Frac(20), Frac(60), Frac(60)>>,
                          <<Frac(25), Frac(25), Frac(50), Frac(50)>>),
           zone("North", <<L(corner_size), L(0), L(w - 2 * corner_size), L(edge_zone_width)>>,
                         <<L(margin), L(margin), L(w - 2 * margin), L(Half(h) - margin)>>),
           zone("South", <<L(corner_size), L(h - edge_zone_width), L(w - 2 * corner_size),
                           L(edge_zone_width)>>,
                         <<L(margin), L(Half(h)), L(w - 2 * margin), L(Half(h) - margin)>>),
           zone("West", <<L(0), L(corner_size), L(edge_zone_width), L(h - 2 * corner_size)>>,
                        <<L(margin), L(margin), L(Half(w) - margin), L(h - 2 * margin)>>),
           zone("East", <<L(w - edge_zone_width), L(corner_size), L(edge_zone_width),
                          L(h - 2 * corner_size)>>,
                        <<L(Half(w)), L(margin), L(Half(w) - margin), L(h - 2 * margin)>>),
           zone("NorthWest", <<L(0), L(0), L(corner_size), L(corner_size)>>,
                             <<L(margin), L(margin), L(Half(w) - margin), L(Half(h) - margin)>>),
           zone("NorthEast", <<L(w - corner_size), L(0), L(corner_size), L(corner_size)>>,
                             <<L(Half(w)), L(margin), L(Half(w) - margin), L(Half(h) - margin)>>),
           zone("SouthWest", <<L(0), L(h - corner_size), L(corner_size), L(corner_size)>>,
                             <<L(margin), L(Half(h)), L(Half(w) - margin), L(Half(h) - margin)>>),
           zone("SouthEast", <<L(w - corner_size), L(h - corner_size), L(corner_size),
                               L(corner_size)>>,
                             <<L(Half(w)), L(Half(h)), L(Half(w) - margin),
                               L(Half(h) - margin)>>) >>

Corners == {"NorthWest", "NorthEast", "SouthWest", "SouthEast"}
Edges == {"North", "South", "East", "West"}
NoZone == [region |-> "None", bounds |-> ZeroRect, snap_rect |-> ZeroRect]

point_in_rect(x, y, rect) ==
    x >= rect.x /\ x <= rect.x + rect.width /\ y >= rect.y /\ y <= rect.y + rect.height

zone_at_edges_first(zones, x, y) ==
    LET hits(kinds) == SelectSeq(zones, LAMBDA z : z.region \in kinds
                                                   /\ point_in_rect(x, y, z.bounds))
    IN  IF hits(Edges) # <<>> THEN Head(hits(Edges))
        ELSE IF hits(Corners) # <<>> THEN Head(hits(Corners))
        ELSE IF hits({"Center"}) # <<>> THEN Head(hits({"Center"}))
        ELSE NoZone

\* The three passes of find_zone_at_point and find_snap_target: corners, then
\* edges, then the centre, each pass in the order of snap_zones.
zone_at(zones, x, y) ==
    LET hits(kinds) == SelectSeq(zones, LAMBDA z : z.region \in kinds
                                                   /\ point_in_rect(x, y, z.bounds))
    IN  IF hits(Corners) # <<>> THEN Head(hits(Corners))
        ELSE IF hits(Edges) # <<>> THEN Head(hits(Edges))
        ELSE IF hits({"Center"}) # <<>> THEN Head(hits({"Center"}))
        ELSE NoZone

center_x(rect) == rect.x + Half(rect.width)
center_y(rect) == rect.y + Half(rect.height)

find_zone_at_point(zones, x, y) == zone_at(zones, x, y).region

\* Option<Rect>: NoZone.snap_rect together with region "None" stands for None.
find_snap_target(zones, window_rect) ==
    zone_at(zones, center_x(window_rect), center_y(window_rect))

find_window_under_drag_any(dragged_window_id, dragged_rect, all_windows) ==
    LET under == SelectSeq(all_windows, LAMBDA w :
                    point_in_rect(center_x(dragged_rect), center_y(dragged_rect), w.rect))
    IN  IF under = <<>> THEN NoWindow ELSE Head(under).id

\* all_windows is a sequence of Window values; NoWindow stands for None.
find_window_under_drag(dragged_window_id, dragged_rect, all_windows) ==
    LET under == SelectSeq(all_windows, LAMBDA w :
                    /\ w.id # dragged_window_id
                    /\ point_in_rect(center_x(dragged_rect), center_y(dragged_rect), w.rect))
    IN  IF under = <<>> THEN NoWindow ELSE Head(under).id

\* sqrt(dx * dx + dy * dy) > t, without forming squares beyond the integer width.
FartherThan(dx, dy, t) ==
    \/ Abs(dx) > t
    \/ Abs(dy) > t
    \/ dx * dx + dy * dy > t * t

differs_from_at_all(a, b) == a # b

\* |a - b| > 10.0 in some coordinate.
differs_from(a, b) ==
    \/ Abs(a.x - b.x) > Px(10)
    \/ Abs(a.y - b.y) > Px(10)
    \/ Abs(a.width - b.width) > Px(10)
    \/ Abs(a.height - b.height) > Px(10)

DragResult(kind, rect, target) == [kind |-> kind, rect |-> rect, target |-> target]
NoAction == DragResult("NoAction", ZeroRect, NoWindow)

\* The match on current_zone in end_window_drag, for a drag that qualifies.
\* The second field of SwapWithWindow is the one window_manager.rs
\* destructures as original_rect.
drag_result_by_zone(zones, initial, window_id, final_rect, all_windows) ==
    LET back == DragResult("ReturnToOriginal", initial, NoWindow)
        current_zone == find_zone_at_point(zones, center_x(final_rect),
                                           center_y(final_rect))
        target == find_window_under_drag(window_id, final_rect, all_windows)
        snap == find_snap_target(zones, final_rect)
    IN  CASE current_zone = "Center" ->
                IF target # NoWindow
                THEN DragResult("SwapWithWindow", initial, target)
                ELSE back
          [] current_zone = "None" -> back
          [] OTHER ->
                IF snap.region # "None" /\ differs_from(snap.snap_rect, final_rect)
                THEN DragResult("SnapToZone", snap.snap_rect, NoWindow)
                ELSE back

\* end_window_drag without its removal of the drag state (the caller removes
\* it): drag_state is the removed entry, long_enough tells whether more than
\* 100 ms have passed since start_window_drag.
end_window_drag(zones, drag_state, window_id, final_rect, all_windows, long_enough) ==
    IF /\ long_enough
       /\ FartherThan(final_rect.x - drag_state.initial_rect.x,
                      final_rect.y - drag_state.initial_rect.y, snap_threshold)
    THEN drag_result_by_zone(zones, drag_state.initial_rect, window_id, final_rect,
                             all_windows)
    ELSE DragResult("ReturnToOriginal", drag_state.initial_rect, NoWindow)

\* Durations are counted in microseconds; Duration::as_millis drops the rest.
min_time_ms == 100
as_millis(elapsed) == elapsed \div 1000

\* drag_duration.as_millis() > min_time_ms
lasted_long_enough(elapsed) == as_millis(elapsed) > min_time_ms

end_window_drag_keeping(drags, zones, window_id, final_rect, all_windows, elapsed) ==
    IF window_id \in DOMAIN drags
    THEN [states |-> drags,
          result |-> end_window_drag(zones, drags[window_id], window_id, final_rect,
                                     all_windows, lasted_long_enough(elapsed))]
    ELSE [states |-> drags, result |-> NoAction]

\* SnapManager::end_window_drag as a whole, `elapsed` after the drag's start:
\* the drag states it leaves and the DragResult it returns.
remove_and_end_window_drag(drags, zones, window_id, final_rect, all_windows, elapsed) ==
    IF window_id \in DOMAIN drags
    THEN [states |-> Remove(drags, window_id),
          result |-> end_window_drag(zones, drags[window_id], window_id, final_rect,
                                     all_windows, lasted_long_enough(elapsed))]
    ELSE [states |-> drags, result |-> NoAction]

is_window_dragging(drags, window_id) ==
    window_id \in DOMAIN drags /\ drags[window_id].is_dragging

start_window_drag(drags, window_id, current_rect) ==
    Put(drags, window_id, [initial_rect |-> current_rect, is_dragging |-> TRUE])

clear_drag_state(drags, window_id) == Remove(drags, window_id)

\* ------------------------------------------------------ WindowManager ----
\* The handlers are sequential code over the fields of self; they are written
\* as operators over a record s of those fields, together with the host they
\* call into and a log of what the handler did:
\*   moves      the set-rectangle calls issued, each with whether its id was
\*              in programmatically_moving when the call was made,
\*   attempts   how many set-rectangle calls were issued for each id,
\*   move_err   whether a move_window call returned Err,
\*   consulted  whether the snap zones were looked up,
\*   result     the DragResult produced ("" when none was),
\*   branch     the branch a WindowMoved took,
\*   ok         whether the host accepts the set-rectangle calls of this handler,
\*   ord        the order in which this handler's map iterations visit ids.
user_dragging_never(s, id) == FALSE

user_dragging(s, id) == id \in s.user_dragging_windows

insert_moving_skipped(s, id) == s

insert_moving(s, id) ==
    [s EXCEPT !.programmatically_moving = @ \cup {id}]

Call1(s, id, rect) ==
    [id |-> id, rect |-> rect, marked |-> id \in s.programmatically_moving]

\* MacOSWindowSystem::move_window; move_ok tells whether it returned Ok (it
\* does when the host accepts the call or has no such window).
macos_move_window(s, id, rect) ==
    [s EXCEPT !.host = set_window_rect(@, id, rect, s.ok),
              !.moves = @ \cup {Call1(s, id, rect)},
              !.attempts[id] = @ + 1,
              !.move_err = @ \/ (~s.ok /\ s.host[id] # Absent)]

move_ok(s, id) == s.ok \/ s.host[id] = Absent

\* MacOSWindowSystem::move_all_windows for the windows `ids`: every id of
\* `ids` that `lay` has a rectangle for is set; the call returns Ok always.
macos_move_all_windows(s, lay, ids) ==
    LET targets == DOMAIN lay \cap ids
    IN  [s EXCEPT !.host = [id \in HostIds |->
                              IF id \in targets
                              THEN set_window_rect(s.host, id, lay[id], s.ok)[id]
                              ELSE s.host[id]],
                  !.moves = @ \cup {Call1(s, id, lay[id]) : id \in targets},
                  !.attempts = [id \in DOMAIN @ |->
                                  IF id \in targets THEN @[id] + 1 ELSE @[id]]]

set_rect(s, id, rect) ==
    IF id \in DOMAIN s.windows THEN [s EXCEPT !.windows[id].rect = rect] ELSE s

insert_previous(s, id, rect) ==
    [s EXCEPT !.previous_window_positions = Put(@, id, rect)]

\* self.windows.values().find(|w| w.is_focused)
get_focused_window_id(s) ==
    LET focused == InOrder(s.ord, {id \in DOMAIN s.windows : s.windows[id].is_focused})
    IN  IF focused = <<>> THEN NoWindow ELSE Head(focused)

get_effective_current_workspace_by_count(s) ==
    LET visible == {id \in DOMAIN s.windows : ~s.windows[id].is_minimized}
        count(id) == Cardinality({o \in visible :
                        s.windows[o].workspace_id = s.windows[id].workspace_id})
        most == {id \in visible : \A o \in visible : count(o) <= count(id)}
    IN  IF visible # {} THEN s.windows[Head(InOrder(s.ord, most))].workspace_id
        ELSE s.current_workspace

get_effective_current_workspace(s) ==
    LET focused == get_focused_window_id(s)
        visible == {id \in DOMAIN s.windows : ~s.windows[id].is_minimized}
        count(id) == Cardinality({o \in visible :
                        s.windows[o].workspace_id = s.windows[id].workspace_id})
        most == {id \in visible : \A o \in visible : count(o) <= count(id)}
    IN  IF focused # NoWindow THEN s.windows[focused].workspace_id
        ELSE IF visible # {} THEN s.windows[Head(InOrder(s.ord, most))].workspace_id
        ELSE s.current_workspace

\* The ids of `all` (a map of Window values) in the effective workspace and not
\* minimized, as the iteration visits them.
workspace_windows(s, all) ==
    InOrder(s.ord, {id \in DOMAIN all :
                       /\ all[id].workspace_id = get_effective_current_workspace(s)
                       /\ ~all[id].is_minimized})

Range(q) == {q[i] : i \in DOMAIN q}

RECURSIVE mark_all(_, _)
mark_all(s, keys) ==
    IF keys = <<>> THEN s ELSE mark_all(insert_moving(s, Head(keys)), Tail(keys))

store_layout(s, rects) ==
    [s EXCEPT !.windows =
        [id \in DOMAIN @ |->
            IF id \in DOMAIN rects THEN [@[id] EXCEPT !.rect = rects[id]] ELSE @[id]]]

\* apply_layout once compute_layout has returned `res` for the windows `ids`:
\* the tree is kept, every key of the layout is marked, the windows are moved
\* and their rectangles stored.  move_all_windows returns Ok always, so the
\* branch of individual moves with retries is not taken.
apply_computed(s, ids, res) ==
    store_layout(
        macos_move_all_windows(
            mark_all([s EXCEPT !.bsp_root = res.root], InOrder(s.ord, DOMAIN res.rects)),
            res.rects, Range(ids)),
        res.rects)

\* apply_layout for the workspace windows `ids`.
apply_to(s, ids) ==
    IF ids = <<>>
    THEN s
    ELSE apply_computed(s, ids,
            compute_layout(s.current_layout, s.bsp_root,
                           [i \in DOMAIN ids |-> [id |-> ids[i], rect |-> s.windows[ids[i]].rect]],
                           screen_rect, split_ratio, gap))

apply_layout(s) == apply_to(s, workspace_windows(s, s.windows))

refresh_windows_keeping(s) ==
    LET current_windows == get_windows(s.host)
        fresh == DOMAIN current_windows \ DOMAIN s.previous_window_positions
        s1 == [s EXCEPT
                 !.current_workspace = FirstWorkspace,
                 !.previous_window_positions =
                    [id \in DOMAIN @ \cup fresh |->
                        IF id \in fresh THEN current_windows[id].rect ELSE @[id]],
                 !.windows = [id \in DOMAIN @ \cup DOMAIN current_windows |->
                                IF id \in DOMAIN current_windows
                                THEN current_windows[id] ELSE @[id]]]
    IN  IF Cardinality(DOMAIN s.windows) # Cardinality(DOMAIN current_windows)
        THEN apply_layout(s1)
        ELSE s1

refresh_windows(s) ==
    LET current_windows == get_windows(s.host)
        fresh == DOMAIN current_windows \ DOMAIN s.previous_window_positions
        s1 == [s EXCEPT
                 !.current_workspace = FirstWorkspace,
                 !.previous_window_positions =
                    [id \in DOMAIN @ \cup fresh |->
                        IF id \in fresh THEN current_windows[id].rect ELSE @[id]],
                 !.windows = current_windows]
    IN  IF Cardinality(DOMAIN s.windows) # Cardinality(DOMAIN current_windows)
        THEN apply_layout(s1)
        ELSE s1

swap_windows(s, window1_id, window2_id) ==
    LET current_windows == get_windows(s.host)
        window1_rect == current_windows[window1_id].rect
        window2_rect == current_windows[window2_id].rect
        swap_layouts == Put(Put(EmptyMap, window1_id, window2_rect), window2_id,
                            window1_rect)
        s1 == insert_moving(insert_moving(s, window1_id), window2_id)
        s2 == macos_move_all_windows(s1, swap_layouts, {window1_id, window2_id})
        s3 == set_rect(set_rect(s2, window1_id, window2_rect), window2_id, window1_rect)
    IN  IF window1_id \in DOMAIN current_windows /\ window2_id \in DOMAIN current_windows
        THEN insert_previous(insert_previous(s3, window1_id, window2_rect),
                             window2_id, window1_rect)
        ELSE s

swap_windows_with_rects(s, window1_id, window2_id, window1_original_rect) ==
    LET current_windows == get_windows(s.host)
        window2_rect == current_windows[window2_id].rect
        swap_layouts == Put(Put(EmptyMap, window1_id, window2_rect), window2_id,
                            window1_original_rect)
        s1 == insert_moving(insert_moving(s, window1_id), window2_id)
        s2 == macos_move_all_windows(s1, swap_layouts, {window1_id, window2_id})
        s3 == set_rect(set_rect(s2, window1_id, window2_rect), window2_id,
                       window1_original_rect)
    IN  IF window2_id \notin DOMAIN current_windows THEN s
        ELSE IF window1_id \notin DOMAIN current_windows THEN s1
        ELSE insert_previous(insert_previous(s3, window1_id, window2_rect),
                             window2_id, window1_original_rect)

return_window_to_original(s, window_id, original_rect) ==
    LET s1 == macos_move_window(insert_moving(s, window_id), window_id, original_rect)
    IN  IF move_ok(s, window_id)
        THEN insert_previous(set_rect(s1, window_id, original_rect), window_id,
                             original_rect)
        ELSE s1

Windows(s, ids) == [i \in DOMAIN ids |-> s.windows[ids[i]]]

\* One move of a window to `rect`, stored when the call returned Ok.
move_and_store(s, window_id, rect) ==
    LET moved == macos_move_window(insert_moving(s, window_id), window_id, rect)
    IN  IF move_ok(s, window_id)
        THEN insert_previous(set_rect(moved, window_id, rect), window_id, rect)
        ELSE moved

\* The snap of handle_immediate_window_positioning; a failed move returns the
\* window to its previous rectangle.
snap_or_return(s, window_id, snap_rect, prev_rect) ==
    IF move_ok(s, window_id)
    THEN move_and_store(s, window_id, snap_rect)
    ELSE return_window_to_original(move_and_store(s, window_id, snap_rect), window_id,
                                   prev_rect)

swap_or_return(s, window_id, target, prev_rect) ==
    IF target # NoWindow
    THEN swap_windows(s, window_id, target)
    ELSE return_window_to_original(s, window_id, prev_rect)

\* handle_immediate_window_positioning for a window that moved more than 20 px:
\* the match on the zone of the window's centre.
position_by_zone(s, window_id, new_rect, prev_rect, zones) ==
    LET current_zone == find_zone_at_point(zones, center_x(new_rect), center_y(new_rect))
        snap == find_snap_target(zones, new_rect)
    IN  CASE current_zone = "Center" ->
                swap_or_return(s, window_id,
                               find_window_under_drag(window_id, new_rect,
                                    Windows(s, workspace_windows(s, s.windows))),
                               prev_rect)
          [] current_zone = "None" -> return_window_to_original(s, window_id, prev_rect)
          [] OTHER ->
                IF snap.region # "None" /\ differs_from(snap.snap_rect, new_rect)
                THEN snap_or_return(s, window_id, snap.snap_rect, prev_rect)
                ELSE s

handle_immediate_window_positioning(s, window_id, new_rect) ==
    LET stored == set_rect(insert_previous(s, window_id, new_rect), window_id, new_rect)
    IN  IF user_dragging(s, window_id) THEN stored
        ELSE IF window_id \notin DOMAIN s.previous_window_positions THEN stored
        ELSE IF ~FartherThan(new_rect.x - s.previous_window_positions[window_id].x,
                             new_rect.y - s.previous_window_positions[window_id].y, Px(20))
        THEN stored
        ELSE position_by_zone([stored EXCEPT !.consulted = TRUE], window_id, new_rect,
                              s.previous_window_positions[window_id],
                              snap_zones(screen_rect))

\* The WindowMoved arm of handle_window_event.
window_moved(s, id, new_rect) ==
    IF id \in s.programmatically_moving
    THEN insert_previous(
            set_rect([s EXCEPT !.programmatically_moving = @ \ {id},
                               !.branch = "programmatic"], id, new_rect),
            id, new_rect)
    ELSE IF user_dragging(s, id)
    THEN insert_previous(set_rect([s EXCEPT !.branch = "drag"], id, new_rect),
                         id, new_rect)
    ELSE handle_immediate_window_positioning([s EXCEPT !.branch = "unsolicited"],
                                             id, new_rect)

window_focused_adding(s, focused_id) ==
    [s EXCEPT !.windows =
        [id \in DOMAIN @ |-> [@[id] EXCEPT !.is_focused = @ \/ (id = focused_id)]]]

\* The WindowFocused arm of handle_window_event.
window_focused(s, focused_id) ==
    [s EXCEPT !.windows =
        [id \in DOMAIN @ |-> [@[id] EXCEPT !.is_focused = (id = focused_id)]]]

\* The events no task of the program sends (WindowResized, WindowMinimized,
\* WindowUnminimized, WorkspaceChanged) are not among the inputs.
handle_window_event(s, event) ==
    CASE event.type = "WindowCreated" ->
            apply_layout([s EXCEPT !.windows =
                            Put(@, event.id, host_window(event.id, event.rect))])
      [] event.type = "WindowDestroyed" ->
            IF event.id \in DOMAIN s.windows
            THEN apply_layout([s EXCEPT !.windows = Remove(@, event.id)])
            ELSE s
      [] event.type = "WindowMoved" -> window_moved(s, event.id, event.rect)
      [] event.type = "WindowFocused" -> window_focused(s, event.id)

\* Squared distance of two centres, in quarter pixels.
Quarter(v) == v \div (Unit \div 4)
distance2(a, b) ==
    Quarter(center_x(a) - center_x(b)) * Quarter(center_x(a) - center_x(b))
    + Quarter(center_y(a) - center_y(b)) * Quarter(center_y(a) - center_y(b))

\* The first candidate at the least distance wins (distance < best_distance).
find_window_in_direction(s, direction) ==
    LET focused_id == get_focused_window_id(s)
        focused_rect == s.windows[focused_id].rect
        is_in_direction(id) ==
            LET r == s.windows[id].rect
            IN  CASE direction = "Left" -> center_x(r) < center_x(focused_rect)
                  [] direction = "Right" -> center_x(r) > center_x(focused_rect)
                  [] direction = "Up" -> center_y(r) < center_y(focused_rect)
                  [] direction = "Down" -> center_y(r) > center_y(focused_rect)
        candidates == SelectSeq(workspace_windows(s, s.windows),
                                LAMBDA id : id # focused_id /\ is_in_direction(id))
        d(id) == distance2(s.windows[id].rect, focused_rect)
        nearest == SelectSeq(candidates,
                             LAMBDA id : \A o \in Range(candidates) : d(id) <= d(o))
    IN  IF focused_id = NoWindow \/ candidates = <<>> THEN NoWindow ELSE Head(nearest)

\* Two moves in a row, the second only when the first returned Ok (`?`).
move_pair(s, id1, rect1, id2, rect2) ==
    LET s1 == macos_move_window(s, id1, rect1)
    IN  IF move_ok(s, id1) THEN macos_move_window(s1, id2, rect2) ELSE s1

\* AccessibilityManager::close_window presses the window's close button.
macos_close_window(s, id) == [s EXCEPT !.host[id] = Absent]

NoOpCommands == {"FocusWindow", "FocusDirection", "ReloadConfig", "ListWindows",
                 "GetStatus"}

\* The focused window and `other_id` exchange rectangles (MoveDirection, SwapMain).
exchange_rects(s, focused_id, other_id) ==
    move_pair(insert_moving(insert_moving(s, focused_id), other_id),
              focused_id, s.windows[other_id].rect,
              other_id, s.windows[focused_id].rect)

\* The FocusDirection arm: the focus_window calls it makes for the target found.
focus_direction(target_id) ==
    IF target_id # NoWindow THEN {[call |-> "focus_window", id |-> target_id]} ELSE {}

move_direction(s, focused_id, target_id) ==
    IF focused_id # NoWindow /\ target_id # NoWindow
    THEN exchange_rects(s, focused_id, target_id)
    ELSE s

swap_main(s, focused_id, main_ids) ==
    IF focused_id # NoWindow /\ main_ids # <<>> /\ Head(main_ids) # focused_id
    THEN exchange_rects(s, focused_id, Head(main_ids))
    ELSE s

\* The match of handle_command, focused_id being get_focused_window_id().
command_arm(s, command, focused_id) ==
    CASE command.name = "MoveWindow" ->
            IF command.id \in DOMAIN s.windows
            THEN macos_move_window(insert_moving(s, command.id), command.id, command.rect)
            ELSE s
      [] command.name = "CloseWindow" ->
            IF command.id \in DOMAIN s.windows
            THEN macos_close_window(s, command.id)
            ELSE s
      [] command.name = "MoveDirection" ->
            move_direction(s, focused_id, find_window_in_direction(s, command.direction))
      [] command.name = "CloseFocusedWindow" ->
            IF focused_id # NoWindow THEN macos_close_window(s, focused_id) ELSE s
      [] command.name = "ToggleLayout" ->
            apply_layout([s EXCEPT !.current_layout = toggle_layout(@)])
      [] command.name = "ToggleFloat" ->
            IF focused_id # NoWindow THEN apply_layout(s) ELSE s
      [] command.name = "ToggleFullscreen" ->
            IF focused_id # NoWindow
            THEN macos_move_window(insert_moving(s, focused_id), focused_id, screen_rect)
            ELSE s
      [] command.name = "SwapMain" ->
            swap_main(s, focused_id, workspace_windows(s, s.windows))
      [] command.name \in NoOpCommands -> s
      [] command.name = "Quit" -> s      \* return Err("Quit requested")

handle_command(s, command) == command_arm(s, command, get_focused_window_id(s))

drag_qualifies(drag_state, final_rect, long_enough) ==
    /\ long_enough
    /\ FartherThan(final_rect.x - drag_state.initial_rect.x,
                   final_rect.y - drag_state.initial_rect.y, snap_threshold)

\* The match on the DragResult.
act_on_drag_result(s, window_id, drag_result) ==
    CASE drag_result.kind \in {"SnapToZone", "ReturnToOriginal"} ->
            move_and_store(s, window_id, drag_result.rect)
      [] drag_result.kind = "SwapWithWindow" ->
            swap_windows_with_rects(s, window_id, drag_result.target, drag_result.rect)
      [] OTHER -> s

\* The current windows of the effective workspace, as handed to end_window_drag.
drag_workspace_windows(s, current_windows) ==
    LET all == workspace_windows(s, current_windows)
    IN  [i \in DOMAIN all |-> current_windows[all[i]]]

\* DragEnded of a window whose drag the snap manager tracks: end_window_drag
\* takes the drag state out and returns drag_result, the result is acted on,
\* and clear_drag_state follows.
process_drag_end(s, window_id, final_rect, drag_state, drag_result, long_enough) ==
    [act_on_drag_result(
        [s EXCEPT !.window_drag_states = Remove(@, window_id),
                  !.consulted = drag_qualifies(drag_state, final_rect, long_enough),
                  !.result = drag_result.kind],
        window_id, drag_result)
     EXCEPT !.window_drag_states = clear_drag_state(@, window_id)]

\* The DragEnded arm, s having the id removed from user_dragging_windows.
drag_ended(s, window_id, final_rect, long_enough) ==
    IF window_id \notin DOMAIN s.windows THEN s
    ELSE IF ~is_window_dragging(s.window_drag_states, window_id)
    THEN set_rect(s, window_id, final_rect)
    ELSE process_drag_end(
            set_rect(s, window_id, final_rect), window_id, final_rect,
            s.window_drag_states[window_id],
            end_window_drag(snap_zones(screen_rect), s.window_drag_states[window_id],
                            window_id, final_rect,
                            drag_workspace_windows(set_rect(s, window_id, final_rect),
                                                   get_windows(s.host)),
                            long_enough),
            long_enough)

handle_drag_event(s, event, long_enough) ==
    IF event.type = "DragStarted"
    THEN insert_previous(
            [s EXCEPT !.user_dragging_windows = @ \cup {event.id},
                      !.window_drag_states = start_window_drag(@, event.id, event.rect)],
            event.id, event.rect)
    ELSE drag_ended([s EXCEPT !.user_dragging_windows = @ \ {event.id}],
                    event.id, event.rect, long_enough)

\* ------------------------------------------- the window manager's loop ----
\* WindowManager::run with the tasks that feed its three channels.  A
\* handler runs to completion before the loop selects again.
Self ==
    [windows |-> windows, current_workspace |-> current_workspace,
     programmatically_moving |-> programmatically_moving,
     user_dragging_windows |-> user_dragging_windows,
     previous_window_positions |-> previous_window_positions,
     window_drag_states |-> window_drag_states,
     current_layout |-> current_layout, bsp_root |-> bsp_root, host |-> host]

NoAttempts == [id \in WindowId |-> 0]

Entering(ord, ok) ==
    Self @@ [moves |-> {}, attempts |-> NoAttempts, move_err |-> FALSE,
             consulted |-> FALSE,
             result |-> "", branch |-> "", ok |-> ok, ord |-> ord]

Commit(s) ==
    /\ windows' = s.windows
    /\ current_workspace' = s.current_workspace
    /\ programmatically_moving' = s.programmatically_moving
    /\ user_dragging_windows' = s.user_dragging_windows
    /\ previous_window_positions' = s.previous_window_positions
    /\ window_drag_states' = s.window_drag_states
    /\ current_layout' = s.current_layout
    /\ bsp_root' = s.bsp_root
    /\ host' = s.host

\* What the loop's last iteration did.
Observation(handler, kind, id, cause, in_order, s) ==
    [handler |-> handler, kind |-> kind, id |-> id, cause |-> cause,
     was_moving |-> id \in programmatically_moving,
     was_dragging |-> id \in user_dragging_windows,
     branch |-> s.branch, consulted |-> s.consulted, result |-> s.result,
     moves |-> s.moves, attempts |-> s.attempts, move_err |-> s.move_err,
     accepted |-> s.ok,
     after_quit |-> quit_requested,
     in_order |-> in_order]

\* A handler has returned leaving the fields s.
Finish(s, handler, kind, id, cause, in_order) ==
    /\ Commit(s)
    /\ obs' = Observation(handler, kind, id, cause, in_order, s)

\* The commands sent.  GetStatus stands for the arms that change nothing of
\* this state (NoOpCommands).
Commands ==
    LET plain(name) == [name |-> name, id |-> NoWindow, rect |-> ZeroRect,
                        direction |-> "Left"]
    IN  {[plain("MoveWindow") EXCEPT !.id = id, !.rect = r] :
            id \in HostIds, r \in CommandRects}
        \cup {[plain("CloseWindow") EXCEPT !.id = id] : id \in HostIds}
        \cup {[plain("MoveDirection") EXCEPT !.direction = d] : d \in Directions}
        \cup {plain(name) :
                name \in {"CloseFocusedWindow", "ToggleLayout", "ToggleFloat",
                          "ToggleFullscreen", "SwapMain", "GetStatus", "Quit"}}

EngineNew ==
    /\ host = [id \in HostIds |-> [rect |-> OwnRect(id), by |-> "user"]]
    /\ last_windows = [id \in HostIds |-> Absent]
    /\ dragging_windows = {}
    /\ event_q = <<>>
    /\ command_q = <<>>
    /\ drag_q = <<>>
    /\ windows = EmptyMap
    /\ current_workspace = FirstWorkspace
    /\ programmatically_moving = {}
    /\ user_dragging_windows = {}
    /\ previous_window_positions = EmptyMap
    /\ window_drag_states = EmptyMap
    /\ pc = "new"
    /\ quit_requested = FALSE
    /\ obs = Observation("new", "", NoWindow, "", TRUE,
                         [branch |-> "", consulted |-> FALSE, result |-> "", moves |-> {},
                          attempts |-> [id \in WindowId |-> 0], move_err |-> FALSE,
                          ok |-> TRUE])
    /\ spent = 0


\* ------------------------------------------- the layout manager alone ----
\* The callers of the LayoutManager: any sequence of add_window, remove_window,
\* compute_layout and toggle_layout calls.  A window list holds distinct ids (it
\* is the value set of the id-keyed World Model); a window that is added is one
\* the tree does not hold (ids are unique among live windows).
IdLists == {s \in UNION {[1 .. k -> WindowId] : k \in 0 .. MaxWin} : Injective(s)}
WindowList(ids) == [i \in DOMAIN ids |-> [id |-> ids[i], rect |-> OwnRect(ids[i])]]
IdsOf(window_list) == {window_list[i].id : i \in DOMAIN window_list}

RECURSIVE Leaves(_)
Leaves(node) ==
    IF node = NoNode THEN <<>>
    ELSE IF is_leaf(node) THEN <<node>>
    ELSE Leaves(node.left) \o Leaves(node.right)

LeafIds(node) ==
    LET ls == Leaves(node) IN [i \in DOMAIN ls |-> ls[i].window_id]
TreeIds(node) == {LeafIds(node)[i] : i \in DOMAIN LeafIds(node)} \ {NoWindow}

Call(name, id, window_list) ==
    [name |-> name, id |-> id, windows |-> window_list, had |-> TreeIds(bsp_root)]

InitLayout ==
    /\ current_layout = "BSP"
    /\ bsp_root = NoNode
    /\ split_ratio \in SplitRatios
    /\ screen_rect = PxRect(0, 0, 1000, 800)
    /\ gap \in Gaps
    /\ op = [name |-> "new", id |-> NoWindow, windows |-> <<>>, had |-> {}]
    /\ layouts = EmptyMap
    /\ expected = {}
    /\ EngineNew
    /\ host_answers = {TRUE}

AddWindow ==
    \E id \in WindowId \ TreeIds(bsp_root) :
        /\ bsp_root' = add_window(current_layout, bsp_root, id, screen_rect, split_ratio)
        /\ expected' = IF current_layout = "BSP" THEN expected \cup {id} ELSE expected
        /\ op' = Call("add_window", id, <<>>)
        /\ layouts' = EmptyMap
        /\ UNCHANGED <<current_layout, split_ratio, screen_rect, gap, engineVars>>

RemoveWindow ==
    \E id \in WindowId :
        /\ bsp_root' = layout_remove_window(current_layout, bsp_root, id, screen_rect)
        /\ expected' = IF current_layout = "BSP" /\ bsp_root # NoNode
                       THEN expected \ {id} ELSE expected
        /\ op' = Call("remove_window", id, <<>>)
        /\ layouts' = EmptyMap
        /\ UNCHANGED <<current_layout, split_ratio, screen_rect, gap, engineVars>>

ComputeLayout ==
    \E ids \in IdLists :
        LET window_list == WindowList(ids)
            res == compute_layout(current_layout, bsp_root, window_list, screen_rect,
                                  split_ratio, gap)
        IN  /\ bsp_root' = res.root
            /\ layouts' = res.rects
            /\ expected' = IF current_layout = "BSP" THEN IdsOf(window_list) ELSE expected
            /\ op' = Call("compute_layout", NoWindow, window_list)
            /\ UNCHANGED <<current_layout, split_ratio, screen_rect, gap, engineVars>>

ToggleLayout ==
    /\ current_layout' = toggle_layout(current_layout)
    /\ op' = Call("toggle_layout", NoWindow, <<>>)
    /\ layouts' = EmptyMap
    /\ UNCHANGED <<bsp_root, split_ratio, screen_rect, gap, expected, engineVars>>

NextLayout == AddWindow \/ RemoveWindow \/ ComputeLayout \/ ToggleLayout

SpecLayout == InitLayout /\ [][NextLayout]_vars

\* ---------------------------------------------------- the split ratio ----
\* The LayoutManager with its split ratio: new() takes config.split_ratio as
\* LayoutConfig::validate lets it pass, adjust_split_ratio and
\* reset_split_ratio change it, add_window and compute_layout insert with it.
ConfiguredRatios == {0, 5, 50, RatioDen}
Deltas == {-80, 80}

\* LayoutConfig::validate on split_ratio returns Ok.
validate(ratio) == ~(ratio <= 0 \/ ratio >= RatioDen)

adjust_split_ratio(ratio, delta) ==
    Min(Max(ratio + delta, RatioDen \div 10), (9 * RatioDen) \div 10)

reset_split_ratio(ratio) == RatioDen \div 2

InitRatio ==
    /\ current_layout = "BSP"
    /\ bsp_root = NoNode
    /\ split_ratio \in {ratio \in ConfiguredRatios : validate(ratio)}
    /\ screen_rect = PxRect(0, 0, 1000, 800)
    /\ gap = DefaultGap
    /\ op = [name |-> "new", id |-> NoWindow, windows |-> <<>>, had |-> {}]
    /\ layouts = EmptyMap
    /\ expected = {}
    /\ EngineNew
    /\ host_answers = {TRUE}

AdjustSplitRatio ==
    \E delta \in Deltas :
        /\ split_ratio' = adjust_split_ratio(split_ratio, delta)
        /\ op' = Call("adjust_split_ratio", NoWindow, <<>>)
        /\ layouts' = EmptyMap
        /\ UNCHANGED <<current_layout, bsp_root, screen_rect, gap, expected, engineVars>>

ResetSplitRatio ==
    /\ split_ratio' = reset_split_ratio(split_ratio)
    /\ op' = Call("reset_split_ratio", NoWindow, <<>>)
    /\ layouts' = EmptyMap
    /\ UNCHANGED <<current_layout, bsp_root, screen_rect, gap, expected, engineVars>>

NextRatio == AddWindow \/ ComputeLayout \/ AdjustSplitRatio \/ ResetSplitRatio

SpecRatio == InitRatio /\ [][NextRatio]_vars

\* --------------------------------------------- the snap manager alone ----
\* The callers of the SnapManager: any sequence of start_window_drag,
\* end_window_drag and clear_drag_state calls on a screen that update_snap_zones
\* has laid the zones of.  On the small screen the edge bands reach into the
\* Center zone and an edge's snap rectangle has its centre inside the band.
SnapScreens == {PxRect(0, 0, 1600, 1000), PxRect(0, 0, 500, 500)}
DragStarts == {PxRect(100, 100, 400, 300), PxRect(800, 0, 800, 1000)}
DragEnds ==
    { PxRect(130, 100, 400, 300),      \* 30 px from the first start
      PxRect(150, 100, 400, 300),      \* 50 px from it; centre (350, 250)
      PxRect(-100, 300, 400, 300),     \* centre (100, 450)
      PxRect(-20, 250, 400, 300),      \* centre (180, 400)
      PxRect(400, 0, 800, 1000),       \* centre (800, 500), on the line between
                                       \* the two lying windows
      PxRect(15, 8, 484, 242),         \* 7 px beside North's snap rectangle
                                       \* on the small screen
      PxRect(20, 8, 484, 242) }        \* 12 px beside it
Elapsed == {60000, 100000, 500000}
\* Window 1 lies on the left half of the large screen, window 2 on the right;
\* the visible windows are the first k of them.
LyingRect(id) == IF id = 1 THEN PxRect(0, 0, 800, 1000) ELSE PxRect(800, 0, 800, 1000)
WindowLists ==
    {[i \in 1 .. k |-> host_window(i, LyingRect(i))] : k \in 0 .. MaxHost}

SnapCall(name, id) ==
    [name |-> name, id |-> id, before |-> window_drag_states, final_rect |-> ZeroRect,
     windows |-> <<>>, elapsed |-> 0, result |-> NoAction]

InitSnap ==
    /\ current_layout = "BSP"
    /\ bsp_root = NoNode
    /\ split_ratio = DefaultSplit
    /\ screen_rect \in SnapScreens
    /\ gap = DefaultGap
    /\ op = [name |-> "new", id |-> NoWindow, before |-> EmptyMap,
             final_rect |-> ZeroRect, windows |-> <<>>, elapsed |-> 0,
             result |-> NoAction]
    /\ layouts = EmptyMap
    /\ expected = {}
    /\ EngineNew
    /\ host_answers = {TRUE}

snapOthers == <<current_layout, bsp_root, split_ratio, screen_rect, gap, layouts,
                expected, host, last_windows, dragging_windows, event_q, command_q,
                drag_q, windows, current_workspace, programmatically_moving,
                user_dragging_windows, previous_window_positions, pc,
                quit_requested, obs, spent, host_answers>>

StartWindowDrag ==
    \E id \in HostIds, rect \in DragStarts :
        /\ window_drag_states' = start_window_drag(window_drag_states, id, rect)
        /\ op' = [SnapCall("start_window_drag", id) EXCEPT !.final_rect = rect]
        /\ UNCHANGED snapOthers

EndWindowDrag ==
    \E id \in HostIds, final_rect \in DragEnds, all_windows \in WindowLists,
       elapsed \in Elapsed :
        LET ended == remove_and_end_window_drag(window_drag_states,
                                                snap_zones(screen_rect), id,
                                                final_rect, all_windows, elapsed)
        IN  /\ window_drag_states' = ended.states
            /\ op' = [SnapCall("end_window_drag", id) EXCEPT
                         !.final_rect = final_rect, !.windows = all_windows,
                         !.elapsed = elapsed, !.result = ended.result]
            /\ UNCHANGED snapOthers

ClearDragState ==
    \E id \in HostIds :
        /\ window_drag_states' = clear_drag_state(window_drag_states, id)
        /\ op' = SnapCall("clear_drag_state", id)
        /\ UNCHANGED snapOthers

\* The centres of the windows whose zone is looked up: on the lines that corner
\* squares and edge bands share, where two bands cross, where a band reaches
\* into the Center zone of the small screen, between the zones, off the screen.
ProbeCentres ==
    {<<50, 100>>, <<100, 50>>, <<120, 120>>, <<150, 300>>, <<20, 10>>, <<250, 129>>,
     <<180, 400>>, <<800, 500>>, <<1590, 990>>, <<-10, 50>>}

\* find_zone_at_point at the centre of a window and find_snap_target for it.
FindZoneAtPoint ==
    \E c \in ProbeCentres :
        LET window_rect == PxRect(c[1] - 100, c[2] - 100, 200, 200)
            zones == snap_zones(screen_rect)
        IN  /\ op' = [SnapCall("find_zone_at_point", NoWindow) EXCEPT
                         !.final_rect = window_rect,
                         !.result = [region |-> find_zone_at_point(
                                                   zones, center_x(window_rect),
                                                   center_y(window_rect)),
                                     snap |-> find_snap_target(zones, window_rect)]]
            /\ UNCHANGED window_drag_states
            /\ UNCHANGED snapOthers

NextSnap == StartWindowDrag \/ EndWindowDrag \/ ClearDragState \/ FindZoneAtPoint

SpecSnap == InitSnap /\ [][NextSnap]_vars

Init ==
    /\ current_layout = "BSP"
    /\ bsp_root = NoNode
    /\ split_ratio = DefaultSplit
    /\ screen_rect = PxRect(0, 0, 1000, 800)
    /\ gap = DefaultGap
    /\ op = [name |-> "new", id |-> NoWindow, windows |-> <<>>, had |-> {}]
    /\ layouts = EmptyMap
    /\ expected = {}
    /\ EngineNew
    /\ host_answers = {TRUE}

\* An event enters its channel knowing how many events about the same window,
\* emitted before it, wait in the other channel (`ahead`); Passed is the other
\* channel once one event about `id` has been taken from this one.
Stamp(e, other) ==
    e @@ [ahead |-> Cardinality({i \in DOMAIN other : other[i].id = e.id})]

Passed(other, id) ==
    [i \in DOMAIN other |->
        IF other[i].id = id /\ other[i].ahead > 0
        THEN [other[i] EXCEPT !.ahead = @ - 1]
        ELSE other[i]]

\* Whether the host accepts the set-rectangle calls of one handler.
HostAccepts == host_answers

\* run, up to the loop: refresh_windows, then apply_layout.
Start ==
    /\ pc = "new"
    /\ \E ord \in Perms(HostIds), ok \in HostAccepts :
          Finish(apply_layout(refresh_windows(Entering(ord, ok))),
                 "start", "", NoWindow, "", TRUE)
    /\ pc' = "loop"
    /\ UNCHANGED <<last_windows, dragging_windows, event_q, command_q, drag_q,
                   quit_requested, spent, configVars>>

\* One tick of the monitoring task: detect_window_changes, then
\* last_windows = current_windows.  Its sends wait for room in the channel.
MonitorPoll ==
    /\ pc = "loop"
    /\ \E ord \in Perms(HostIds) :
          LET events == detect_window_changes(last_windows, host, ord)
          IN  /\ events # <<>>
              /\ Len(event_q) + Len(events) <= MaxQueue
              /\ event_q' = event_q \o [i \in DOMAIN events |-> Stamp(events[i], drag_q)]
    /\ last_windows' = [id \in HostIds |->
                          IF host[id] = Absent THEN Absent ELSE host[id].rect]
    /\ UNCHANGED <<host, dragging_windows, command_q, drag_q, engineSelf, pc,
                   quit_requested, obs, spent, configVars>>

UserGesture == pc = "loop" /\ spent < MaxInputs
Gestured == spent' = spent + 1

\* The user moves or resizes a window.
UserMove ==
    /\ UserGesture
    /\ \E id \in HostIds, r \in Spots :
          /\ host[id] # Absent
          /\ host[id].rect # r
          /\ host' = [host EXCEPT ![id] = [rect |-> r, by |-> "user"]]
    /\ Gestured
    /\ UNCHANGED <<last_windows, dragging_windows, event_q, command_q, drag_q,
                   engineSelf, pc, quit_requested, obs, configVars>>

UserClose ==
    /\ UserGesture
    /\ \E id \in HostIds :
          /\ host[id] # Absent
          /\ host' = [host EXCEPT ![id] = Absent]
    /\ Gestured
    /\ UNCHANGED <<last_windows, dragging_windows, event_q, command_q, drag_q,
                   engineSelf, pc, quit_requested, obs, configVars>>

UserOpen ==
    /\ UserGesture
    /\ \E id \in HostIds :
          /\ host[id] = Absent
          /\ host' = [host EXCEPT ![id] = [rect |-> OwnRect(id), by |-> "user"]]
    /\ Gestured
    /\ UNCHANGED <<last_windows, dragging_windows, event_q, command_q, drag_q,
                   engineSelf, pc, quit_requested, obs, configVars>>

\* try_send: the event is dropped when the channel is full.
TrySendDrag(event) ==
    IF Len(drag_q) < MaxQueue
    THEN drag_q' = Append(drag_q, Stamp(event, event_q))
    ELSE UNCHANGED drag_q

\* window_will_move_callback: the user takes hold of a window.
WillMove ==
    /\ UserGesture
    /\ \E id \in HostIds :
          /\ host[id] # Absent
          /\ dragging_windows' = dragging_windows \cup {id}
          /\ TrySendDrag([type |-> "DragStarted", id |-> id, rect |-> host[id].rect])
    /\ Gestured
    /\ UNCHANGED <<host, last_windows, event_q, command_q, engineSelf, pc,
                   quit_requested, obs, configVars>>

\* window_did_move_callback for a window the observer holds as dragged (for
\* any other window it does nothing).
DidMove ==
    /\ pc = "loop"
    /\ \E id \in dragging_windows :
          /\ host[id] # Absent
          /\ dragging_windows' = dragging_windows \ {id}
          /\ TrySendDrag([type |-> "DragEnded", id |-> id, rect |-> host[id].rect])
    /\ UNCHANGED <<host, last_windows, event_q, command_q, engineSelf, pc,
                   quit_requested, obs, spent, configVars>>

\* FocusManager::handle_mouse_move sends WindowFocused for the window under
\* the cursor when it is not the focused one.
FocusFollows ==
    /\ UserGesture
    /\ Len(event_q) < MaxQueue
    /\ \E id \in DOMAIN windows :
          /\ ~windows[id].is_focused
          /\ event_q' = Append(event_q, Stamp([type |-> "WindowFocused", id |-> id,
                                               rect |-> ZeroRect, cause |-> "user"],
                                              drag_q))
    /\ Gestured
    /\ UNCHANGED <<host, last_windows, dragging_windows, command_q, drag_q, engineSelf,
                   pc, quit_requested, obs, configVars>>

\* The IPC server or the hotkey manager sends a command.
SendCommand ==
    /\ pc = "loop"
    /\ spent < MaxInputs
    /\ Len(command_q) < MaxQueue
    /\ \E command \in Commands : command_q' = Append(command_q, command)
    /\ spent' = spent + 1
    /\ UNCHANGED <<host, last_windows, dragging_windows, event_q, drag_q, engineSelf,
                   pc, quit_requested, obs, configVars>>

\* The four branches of the loop's select!.  handle_command's Err on Quit is
\* logged by the loop like any other error.
\* An arm of the select in run, err telling whether the handler returned Err:
\* the error is logged and the loop selects again.
run_arm_returning(err) == IF err THEN "returned" ELSE "loop"

run_arm(err) == "loop"

\* handle_command returns Err for Quit and when a move_window it made did; the
\* other handlers match the errors of their moves and return Ok.
returned_err(s, handler, kind) ==
    handler = "command" /\ (kind = "Quit" \/ s.move_err)

Handled(s, handler, kind, id, cause, in_order) ==
    /\ Finish(s, handler, kind, id, cause, in_order)
    /\ pc' = run_arm(returned_err(s, handler, kind))

HandleWindowEvent ==
    /\ pc = "loop"
    /\ event_q # <<>>
    /\ \E ord \in Perms(HostIds), ok \in HostAccepts :
          LET event == Head(event_q)
          IN  /\ Handled(handle_window_event(Entering(ord, ok), event),
                        "event", event.type, event.id, event.cause, event.ahead = 0)
              /\ drag_q' = Passed(drag_q, event.id)
    /\ event_q' = Tail(event_q)
    /\ UNCHANGED <<last_windows, dragging_windows, command_q, quit_requested,
                   spent, configVars>>

HandleCommand ==
    /\ pc = "loop"
    /\ command_q # <<>>
    /\ \E ord \in Perms(HostIds), ok \in HostAccepts :
          LET command == Head(command_q)
          IN  /\ Handled(handle_command(Entering(ord, ok), command),
                        "command", command.name, command.id, "", TRUE)
              /\ quit_requested' = (quit_requested \/ command.name = "Quit")
    /\ command_q' = Tail(command_q)
    /\ UNCHANGED <<last_windows, dragging_windows, event_q, drag_q, spent,
                   configVars>>

HandleDragEvent ==
    /\ pc = "loop"
    /\ drag_q # <<>>
    /\ \E ord \in Perms(HostIds), ok \in HostAccepts, long_enough \in BOOLEAN :
          LET event == Head(drag_q)
          IN  /\ Handled(handle_drag_event(Entering(ord, ok), event, long_enough),
                        "drag", event.type, event.id, "user", event.ahead = 0)
              /\ event_q' = Passed(event_q, event.id)
    /\ drag_q' = Tail(drag_q)
    /\ UNCHANGED <<last_windows, dragging_windows, command_q, quit_requested,
                   spent, configVars>>

RefreshTick ==
    /\ pc = "loop"
    /\ \E ord \in Perms(HostIds), ok \in HostAccepts :
          Handled(refresh_windows(Entering(ord, ok)), "tick", "", NoWindow, "", TRUE)
    /\ UNCHANGED <<last_windows, dragging_windows, event_q, command_q, drag_q,
                   quit_requested, spent, configVars>>

Next ==
    \/ Start
    \/ MonitorPoll
    \/ UserMove
    \/ UserClose
    \/ UserOpen
    \/ WillMove
    \/ DidMove
    \/ FocusFollows
    \/ SendCommand
    \/ HandleWindowEvent
    \/ HandleCommand
    \/ HandleDragEvent
    \/ RefreshTick

Spec == Init /\ [][Next]_vars

\* The same loop with a host that may refuse the set-rectangle calls of a
\* handler (AXUIElementSetAttributeValue answering an error), in the runs that
\* have one input left.
InitRefusing ==
    /\ current_layout = "BSP"
    /\ bsp_root = NoNode
    /\ split_ratio = DefaultSplit
    /\ screen_rect = PxRect(0, 0, 1000, 800)
    /\ gap = DefaultGap
    /\ op = [name |-> "new", id |-> NoWindow, windows |-> <<>>, had |-> {}]
    /\ layouts = EmptyMap
    /\ expected = {}
    /\ host = [id \in HostIds |-> [rect |-> OwnRect(id), by |-> "user"]]
    /\ last_windows = [id \in HostIds |-> Absent]
    /\ dragging_windows = {}
    /\ event_q = <<>>
    /\ command_q = <<>>
    /\ drag_q = <<>>
    /\ windows = EmptyMap
    /\ current_workspace = FirstWorkspace
    /\ programmatically_moving = {}
    /\ user_dragging_windows = {}
    /\ previous_window_positions = EmptyMap
    /\ window_drag_states = EmptyMap
    /\ pc = "new"
    /\ quit_requested = FALSE
    /\ obs = Observation("new", "", NoWindow, "", TRUE,
                         [branch |-> "", consulted |-> FALSE, result |-> "", moves |-> {},
                          attempts |-> [id \in WindowId |-> 0], move_err |-> FALSE,
                          ok |-> TRUE])
    /\ spent = MaxInputs - 1
    /\ host_answers = BOOLEAN

\* A window is opened only after one was closed, which takes two inputs.
NextRefusing ==
    \/ Start
    \/ MonitorPoll
    \/ UserMove
    \/ UserClose
    \/ WillMove
    \/ DidMove
    \/ FocusFollows
    \/ SendCommand
    \/ HandleWindowEvent
    \/ HandleCommand
    \/ HandleDragEvent
    \/ RefreshTick

SpecRefusing == InitRefusing /\ [][NextRefusing]_vars


\* ------------------------------------------------ the end of one drag ----
\* The loop from the moment the user, one gesture before the last, holds
\* window d and has moved it to r: run has tiled the windows, the drag
\* observer has sent DragStarted(d), the monitoring task has not polled yet.
\* What is left to happen is the release, at most one closing of a window,
\* and the loop's handling of what these send.
NewSelf ==
    [windows |-> EmptyMap, current_workspace |-> FirstWorkspace,
     programmatically_moving |-> {}, user_dragging_windows |-> {},
     previous_window_positions |-> EmptyMap, window_drag_states |-> EmptyMap,
     current_layout |-> "BSP", bsp_root |-> NoNode,
     host |-> [id \in HostIds |-> [rect |-> OwnRect(id), by |-> "user"]],
     moves |-> {}, attempts |-> NoAttempts, move_err |-> FALSE, consulted |-> FALSE,
     result |-> "", branch |-> "", ok |-> TRUE]

Started(ord) == apply_layout(refresh_windows(NewSelf @@ [ord |-> ord]))

Held(s, d, r) ==
    /\ s.host[d].rect # r
    /\ host = [s.host EXCEPT ![d] = [rect |-> r, by |-> "user"]]
    /\ last_windows = [id \in HostIds |-> Absent]
    /\ dragging_windows = {d}
    /\ event_q = <<>>
    /\ command_q = <<>>
    /\ drag_q = <<Stamp([type |-> "DragStarted", id |-> d, rect |-> s.host[d].rect],
                        <<>>)>>
    /\ windows = s.windows
    /\ current_workspace = s.current_workspace
    /\ programmatically_moving = s.programmatically_moving
    /\ user_dragging_windows = s.user_dragging_windows
    /\ previous_window_positions = s.previous_window_positions
    /\ window_drag_states = s.window_drag_states
    /\ current_layout = s.current_layout
    /\ bsp_root = s.bsp_root
    /\ pc = "loop"
    /\ quit_requested = FALSE
    /\ obs = [handler |-> "start", kind |-> "", id |-> NoWindow, cause |-> "",
              was_moving |-> FALSE, was_dragging |-> FALSE, branch |-> s.branch,
              consulted |-> s.consulted, result |-> s.result, moves |-> s.moves,
              after_quit |-> FALSE, in_order |-> TRUE]
    /\ spent = MaxInputs - 1

InitDragEnd ==
    /\ split_ratio = DefaultSplit
    /\ screen_rect = PxRect(0, 0, 1000, 800)
    /\ gap = DefaultGap
    /\ op = [name |-> "new", id |-> NoWindow, windows |-> <<>>, had |-> {}]
    /\ layouts = EmptyMap
    /\ expected = {}
    /\ \E ord \in Perms(HostIds), d \in HostIds, r \in Spots : Held(Started(ord), d, r)
    /\ host_answers = {TRUE}

NextDragEnd ==
    \/ MonitorPoll
    \/ UserClose
    \/ DidMove
    \/ HandleWindowEvent
    \/ HandleDragEvent
    \/ RefreshTick

SpecDragEnd == InitDragEnd /\ [][NextDragEnd]_vars


\* ------------------------------------------ the World Model's queries ----
\* get_effective_current_workspace and find_window_in_direction on the World
\* Models a snapshot and the arms of handle_window_event leave: every window
\* carries the workspace id the host reported for it (0 included), at most one
\* window is focused (the WindowFocused arm clears the flag of every other
\* one), is_minimized is as the WindowMinimized arm left it.  The windows stand
\* on a grid of 100 pixels: Mid, East two steps to its right, NorthEast
\* and SouthEast one step to its right and one step above and below.
WorldRectAt(cx, cy) == PxRect(cx * 100, cy * 100, 100, 100)
Mid == WorldRectAt(0, 1)
East == WorldRectAt(2, 1)
NorthEast == WorldRectAt(1, 0)
SouthEast == WorldRectAt(1, 2)
WorldRects == {Mid, East, NorthEast, SouthEast}
Workspaces == {0, 1, 2}

WorldWindow(id, rect, workspace_id, is_minimized) ==
    [host_window(id, rect) EXCEPT !.workspace_id = workspace_id,
                                  !.is_minimized = is_minimized]

\* The World Models of k windows, no two of them at the same place, at most one
\* of them minimized.
WorldModels ==
    UNION {{[id \in 1 .. k |-> WorldWindow(id, r[id], w[id], id = m)] :
              r \in {q \in [1 .. k -> WorldRects] : Injective(q)},
              w \in [1 .. k -> Workspaces], m \in 0 .. k} :
           k \in 0 .. MaxWin}

WorldCall(name, direction, result, calls) ==
    [name |-> name, direction |-> direction, result |-> result, calls |-> calls]

InitWorld ==
    /\ current_layout = "BSP"
    /\ bsp_root = NoNode
    /\ split_ratio = DefaultSplit
    /\ screen_rect = PxRect(0, 0, 1000, 800)
    /\ gap = DefaultGap
    /\ op = WorldCall("new", "", NoWindow, {})
    /\ layouts = EmptyMap
    /\ expected = {}
    /\ host_answers = {TRUE}
    /\ windows \in WorldModels
    /\ current_workspace \in Workspaces \ {0}
    /\ host = [id \in WindowId |->
                 IF id \in DOMAIN windows
                 THEN [rect |-> windows[id].rect, by |-> "user"] ELSE Absent]
    /\ last_windows = [id \in HostIds |-> Absent]
    /\ dragging_windows = {}
    /\ event_q = <<>>
    /\ command_q = <<>>
    /\ drag_q = <<>>
    /\ programmatically_moving = {}
    /\ user_dragging_windows = {}
    /\ previous_window_positions = EmptyMap
    /\ window_drag_states = EmptyMap
    /\ pc = "loop"
    /\ quit_requested = FALSE
    /\ obs = Observation("new", "", NoWindow, "", TRUE,
                         [branch |-> "", consulted |-> FALSE, result |-> "", moves |-> {},
                          attempts |-> [id \in WindowId |-> 0], move_err |-> FALSE,
                          ok |-> TRUE])
    /\ spent = 0

worldButOp == <<current_layout, bsp_root, split_ratio, screen_rect, gap, layouts,
               expected, engineVars>>

worldOthers == <<last_windows, dragging_windows, event_q, command_q, drag_q, pc,
                 quit_requested, obs, spent, configVars>>

\* The WindowFocused arm of handle_window_event, before the first query.
WindowFocused ==
    /\ op.name = "new"
    /\ \E id \in DOMAIN windows :
          Commit(handle_window_event(Entering(<<>>, TRUE),
                                     [type |-> "WindowFocused", id |-> id]))
    /\ UNCHANGED worldOthers

EffectiveWorkspace ==
    /\ op.name = "new"
    /\ \E ord \in Perms(WindowId) :
          op' = WorldCall("get_effective_current_workspace", "",
                          get_effective_current_workspace(Entering(ord, TRUE)), {})
    /\ UNCHANGED worldButOp

\* The FocusDirection arm of handle_command; `calls` are its focus_window calls.
FocusDirection ==
    /\ op.name = "new"
    /\ \E ord \in Perms(WindowId), direction \in Directions :
          LET target_id == find_window_in_direction(Entering(ord, TRUE), direction)
          IN  op' = WorldCall("FocusDirection", direction, target_id,
                              focus_direction(target_id))
    /\ UNCHANGED worldButOp

\* The MoveDirection arm of handle_command; `calls` are its set-rectangle calls.
MoveDirection ==
    /\ op.name = "new"
    /\ \E ord \in Perms(WindowId), direction \in Directions :
          LET s == Entering(ord, TRUE)
              done == handle_command(s, [name |-> "MoveDirection", id |-> NoWindow,
                                         direction |-> direction])
          IN  /\ Commit(done)
              /\ op' = WorldCall("MoveDirection", direction,
                                 find_window_in_direction(s, direction), done.moves)
    /\ UNCHANGED <<last_windows, dragging_windows, event_q, command_q, drag_q, pc,
                   quit_requested, obs, spent, split_ratio, screen_rect, gap,
                   layouts, expected, host_answers>>

NextWorld ==
    WindowFocused \/ EffectiveWorkspace \/ FocusDirection \/ MoveDirection

SpecWorld == InitWorld /\ [][NextWorld]_vars


\* ------------------------------------------------------ the bulk move ----
\* AccessibilityManager::move_all_windows on applications with several
\* windows.  apps[pid] is the host's window list of application pid, each
\* element told by whether it has a position and a size (is_window_tileable);
\* an element is named by its application and its place in that list.  The
\* result is the sequence of set_window_rect calls, pid_order being the order
\* in which the set of pids is iterated.
AppPids == {501, 502}
AppLists == UNION {[1 .. n -> BOOLEAN] : n \in 0 .. MaxHost}
Hosts == [AppPids -> AppLists]
Record(id, owner_pid) == [id |-> id, owner_pid |-> owner_pid]
RecordLists ==
    UNION {{[i \in 1 .. k |-> Record(ids[i], pids[i])] :
              ids \in {q \in [1 .. k -> WindowId] : Injective(q)},
              pids \in [1 .. k -> AppPids]} :
           k \in 0 .. MaxWin}
Mappings == {[id \in keys |-> OwnRect(id)] : keys \in SUBSET WindowId}

get_windows_for_app_by_pid(apps, pid) ==
    IF pid <= 1
    THEN <<>>
    ELSE SelectSeq([i \in DOMAIN apps[pid] |->
                        [pid |-> pid, place |-> i, tileable |-> apps[pid][i]]],
                   LAMBDA element : element.tileable)

\* The inner loop of move_all_windows with the i-th element matched to the
\* i-th record of the whole list.
calls_for_pid_by_global_index(lay, records, apps, pid) ==
    LET app_window_elements == get_windows_for_app_by_pid(apps, pid)
        matched == SelectSeq([i \in DOMAIN app_window_elements |-> i],
                             LAMBDA i : /\ i <= Len(records)
                                        /\ records[i].id \in DOMAIN lay)
    IN  [k \in DOMAIN matched |->
            [element |-> [pid |-> pid, place |-> app_window_elements[matched[k]].place],
             id |-> records[matched[k]].id,
             rect |-> lay[records[matched[k]].id]]]

\* The inner loop of move_all_windows for one pid: the set_window_rect calls
\* on the elements of the application.
calls_for_pid(lay, records, apps, pid) ==
    LET app_window_elements == get_windows_for_app_by_pid(apps, pid)
        windows_for_pid == SelectSeq(records, LAMBDA w : w.owner_pid = pid)
        matched == SelectSeq([i \in DOMAIN app_window_elements |-> i],
                             LAMBDA i : /\ i <= Len(windows_for_pid)
                                        /\ windows_for_pid[i].id \in DOMAIN lay)
    IN  [k \in DOMAIN matched |->
            [element |-> [pid |-> pid, place |-> app_window_elements[matched[k]].place],
             id |-> windows_for_pid[matched[k]].id,
             rect |-> lay[windows_for_pid[matched[k]].id]]]

RECURSIVE move_all_windows(_, _, _, _)
move_all_windows(lay, records, apps, pid_order) ==
    IF pid_order = <<>>
    THEN <<>>
    ELSE (IF \E i \in DOMAIN records : records[i].owner_pid = Head(pid_order)
          THEN calls_for_pid(lay, records, apps, Head(pid_order))
          ELSE <<>>)
         \o move_all_windows(lay, records, apps, Tail(pid_order))

InitBulk ==
    /\ current_layout = "BSP"
    /\ bsp_root = NoNode
    /\ split_ratio = DefaultSplit
    /\ screen_rect = PxRect(0, 0, 1000, 800)
    /\ gap = DefaultGap
    /\ \E mapping \in Mappings, records \in RecordLists, apps \in Hosts :
          op = [name |-> "new", layouts |-> mapping, windows |-> records,
                apps |-> apps, calls |-> <<>>]
    /\ layouts = EmptyMap
    /\ expected = {}
    /\ EngineNew
    /\ host_answers = {TRUE}

MoveAllWindows ==
    /\ op.name = "new"
    /\ \E pid_order \in Perms(AppPids) :
          op' = [op EXCEPT !.name = "move_all_windows",
                           !.calls = move_all_windows(op.layouts, op.windows, op.apps,
                                                      pid_order)]
    /\ UNCHANGED worldButOp

NextBulk == MoveAllWindows

SpecBulk == InitBulk /\ [][NextBulk]_vars


\* ------------------------------------------- the accessibility cache ----
\* AccessibilityManager's window_cache and the retains and releases it makes
\* on the host's accessibility elements.  ax is the manager: window_cache maps
\* a WindowId to the element cached under it, held[e] counts the CFRetain
\* calls on element e minus the CFRelease calls, collided and replaced log
\* whether process_windows_array met a WindowId already cached and whether an
\* insert replaced an entry.  The ids are what the hash of pointer, pid and
\* index, and for the fallback the clock, give: inputs of each refresh.
Elements == 1 .. MaxHost
ArrayEntry(element, window_id, fallback_id) ==
    [element |-> element, window_id |-> window_id, fallback_id |-> fallback_id]
\* The windows array of the focused application as process_windows_array reads
\* it: distinct elements; the fallback ids, the clock plus the index, differ.
WindowsArrays ==
    UNION {{[i \in 1 .. k |-> ArrayEntry(els[i], ids[i], fbs[i])] :
              els \in {q \in [1 .. k -> Elements] : Injective(q)},
              ids \in [1 .. k -> WindowId],
              fbs \in {q \in [1 .. k -> WindowId] : Injective(q)}} :
           k \in 0 .. MaxHost}

CFRetain(ax, element) == [ax EXCEPT !.held[element] = @ + 1]
CFRelease(ax, element) == [ax EXCEPT !.held[element] = @ - 1]

cache_insert(ax, window_id, element) ==
    [ax EXCEPT !.window_cache = Put(@, window_id, element),
               !.replaced = @ \/ window_id \in DOMAIN ax.window_cache]

RECURSIVE process_windows_array(_, _)
process_windows_array(ax, windows_array) ==
    IF windows_array = <<>>
    THEN ax
    ELSE LET entry == Head(windows_array)
             retained == CFRetain(ax, entry.element)
         IN  process_windows_array(
                IF entry.window_id \in DOMAIN ax.window_cache
                THEN cache_insert([retained EXCEPT !.collided = TRUE],
                                  entry.fallback_id, entry.element)
                ELSE cache_insert(retained, entry.window_id, entry.element),
                Tail(windows_array))

RECURSIVE release_all(_, _)
release_all(ax, elements) ==
    IF elements = <<>> THEN ax
    ELSE release_all(CFRelease(ax, Head(elements)), Tail(elements))

RECURSIVE retain_all(_, _)
retain_all(ax, elements) ==
    IF elements = <<>> THEN ax
    ELSE retain_all(CFRetain(ax, Head(elements)), Tail(elements))

\* The cached elements, one per entry.
RECURSIVE values(_)
values(cache) ==
    IF DOMAIN cache = {} THEN <<>>
    ELSE LET window_id == CHOOSE k \in DOMAIN cache : TRUE
         IN  <<cache[window_id]>> \o values(Remove(cache, window_id))
cached_elements(ax) == values(ax.window_cache)

\* refresh_window_cache; stale tells whether 100 ms have passed since the last
\* refresh, windows_array is what the focused application answers.
refresh_window_cache(ax, stale, windows_array) ==
    IF ~stale
    THEN ax
    ELSE process_windows_array(
            [release_all(ax, cached_elements(ax)) EXCEPT !.window_cache = EmptyMap],
            windows_array)

\* find_window_element followed by the CFRelease of move_window.
move_window(ax, window_id, stale, windows_array) ==
    LET looked == IF window_id \in DOMAIN ax.window_cache
                  THEN ax
                  ELSE refresh_window_cache(ax, stale, windows_array)
    IN  IF window_id \in DOMAIN looked.window_cache
        THEN CFRelease(CFRetain(looked, looked.window_cache[window_id]),
                       looked.window_cache[window_id])
        ELSE looked

\* The elements get_windows_for_app_by_pid retained, released by
\* move_all_windows after its loop.
move_all_retained(ax, app_window_elements) ==
    release_all(retain_all(ax, app_window_elements), app_window_elements)

drop(ax) ==
    [release_all(ax, cached_elements(ax)) EXCEPT !.window_cache = EmptyMap]

NewManager ==
    [window_cache |-> EmptyMap, held |-> [e \in Elements |-> 0],
     collided |-> FALSE, replaced |-> FALSE]

CacheCall(name, ax) ==
    [name |-> name,
     ax |-> [ax EXCEPT !.collided = ax.collided /\ name # "drop",
                       !.replaced = ax.replaced /\ name # "drop"]]

Fresh(ax) == [ax EXCEPT !.collided = FALSE, !.replaced = FALSE]

\* The manager is in use and holds no more retains than one windows array has
\* elements (the bound on the retains counted).
RECURSIVE HeldTotal(_, _)
HeldTotal(ax, elements) ==
    IF elements = {} THEN 0
    ELSE LET e == CHOOSE x \in elements : TRUE
         IN  ax.held[e] + HeldTotal(ax, elements \ {e})
InUse == op.name # "drop" /\ HeldTotal(op.ax, Elements) <= MaxHost

InitCache ==
    /\ current_layout = "BSP"
    /\ bsp_root = NoNode
    /\ split_ratio = DefaultSplit
    /\ screen_rect = PxRect(0, 0, 1000, 800)
    /\ gap = DefaultGap
    /\ op = CacheCall("new", NewManager)
    /\ layouts = EmptyMap
    /\ expected = {}
    /\ EngineNew
    /\ host_answers = {TRUE}

RefreshWindowCache ==
    /\ InUse
    /\ \E stale \in BOOLEAN, windows_array \in WindowsArrays :
          op' = CacheCall("refresh_window_cache",
                          refresh_window_cache(Fresh(op.ax), stale, windows_array))
    /\ UNCHANGED worldButOp

MoveWindow ==
    /\ InUse
    /\ \E window_id \in WindowId, stale \in BOOLEAN, windows_array \in WindowsArrays :
          op' = CacheCall("move_window",
                          move_window(Fresh(op.ax), window_id, stale, windows_array))
    /\ UNCHANGED worldButOp

MoveAllRetained ==
    /\ InUse
    /\ \E app_window_elements \in {q \in UNION {[1 .. k -> Elements] : k \in 0 .. MaxHost} :
                                      Injective(q)} :
          op' = CacheCall("move_all_windows",
                          move_all_retained(Fresh(op.ax), app_window_elements))
    /\ UNCHANGED worldButOp

Drop ==
    /\ op.name # "drop"
    /\ op' = CacheCall("drop", drop(op.ax))
    /\ UNCHANGED worldButOp

NextCache == RefreshWindowCache \/ MoveWindow \/ MoveAllRetained \/ Drop

SpecCache == InitCache /\ [][NextCache]_vars

\* ------------------------------------------ properties of the BSP tree ----
\* Paths are sequences of "L" / "R" from the root.
RECURSIVE NodeAt(_, _)
NodeAt(node, path) ==
    IF path = <<>> THEN node
    ELSE NodeAt(IF Head(path) = "L" THEN node.left ELSE node.right, Tail(path))

RECURSIVE ReplaceAt(_, _, _)
ReplaceAt(node, path, sub) ==
    IF path = <<>> THEN sub
    ELSE IF Head(path) = "L"
         THEN [node EXCEPT !.left = ReplaceAt(node.left, Tail(path), sub)]
         ELSE [node EXCEPT !.right = ReplaceAt(node.right, Tail(path), sub)]

RECURSIVE PathsOf(_)
PathsOf(node) ==
    IF node = NoNode THEN {}
    ELSE {<<>>} \cup {<<"L">> \o q : q \in PathsOf(node.left)}
                \cup {<<"R">> \o q : q \in PathsOf(node.right)}

LeafPaths(node) == {q \in PathsOf(node) : is_leaf(NodeAt(node, q))}
PathOfId(node, id) == CHOOSE q \in LeafPaths(node) : NodeAt(node, q).window_id = id
RightmostPath(node) == CHOOSE q \in LeafPaths(node) : \A i \in DOMAIN q : q[i] = "R"
Front(q) == SubSeq(q, 1, Len(q) - 1)
Sibling(node, q) ==
    NodeAt(node, Front(q) \o (IF q[Len(q)] = "L" THEN <<"R">> ELSE <<"L">>))

\* The node without the rectangles: its structure.
RECURSIVE Skeleton(_)
Skeleton(node) ==
    IF node = NoNode THEN NoNode
    ELSE [split_ratio |-> node.split_ratio, is_horizontal |-> node.is_horizontal,
          window_id |-> node.window_id,
          left |-> Skeleton(node.left), right |-> Skeleton(node.right)]

\* The two rectangles share a region of positive area.
Overlap(a, b) ==
    /\ Min(a.x + a.width, b.x + b.width) > Max(a.x, b.x)
    /\ Min(a.y + a.height, b.y + b.height) > Max(a.y, b.y)
Inside(r, outer) ==
    /\ r.x >= outer.x /\ r.y >= outer.y
    /\ r.x + r.width <= outer.x + outer.width
    /\ r.y + r.height <= outer.y + outer.height
Grow(r, d) == Rect(r.x - d, r.y - d, r.width + 2 * d, r.height + 2 * d)
\* The rectangles of the map m cover `outer`, each point of it once: every cell
\* of the grid drawn by all the edges lies in exactly one rectangle.
ExactCover(m, outer) ==
    LET xs == {outer.x} \cup {m[k].x : k \in DOMAIN m}
                        \cup {m[k].x + m[k].width : k \in DOMAIN m}
        ys == {outer.y} \cup {m[k].y : k \in DOMAIN m}
                        \cup {m[k].y + m[k].height : k \in DOMAIN m}
        holds(k, a, b) == /\ m[k].x <= a /\ a < m[k].x + m[k].width
                          /\ m[k].y <= b /\ b < m[k].y + m[k].height
    IN  /\ \A k \in DOMAIN m : Inside(m[k], outer)
        /\ \A a \in xs, b \in ys :
              (a < outer.x + outer.width /\ b < outer.y + outer.height)
              => Cardinality({k \in DOMAIN m : holds(k, a, b)}) = 1
\* The children of every inner node split the node's rectangle in two.
InnerTiled(node) ==
    \A q \in PathsOf(node) :
        LET n == NodeAt(node, q)
        IN  ~is_leaf(n) =>
              /\ n.left.rect.x = n.rect.x /\ n.left.rect.y = n.rect.y
              /\ IF n.is_horizontal
                 THEN /\ n.right.rect.x = n.left.rect.x + n.left.rect.width
                      /\ n.right.rect.y = n.rect.y
                      /\ n.left.rect.width + n.right.rect.width = n.rect.width
                      /\ n.left.rect.height = n.rect.height
                      /\ n.right.rect.height = n.rect.height
                 ELSE /\ n.right.rect.y = n.left.rect.y + n.left.rect.height
                      /\ n.right.rect.x = n.rect.x
                      /\ n.left.rect.height + n.right.rect.height = n.rect.height
                      /\ n.left.rect.width = n.rect.width
                      /\ n.right.rect.width = n.rect.width

C7_BSPTiling ==
    bsp_root # NoNode =>
        LET m == collect_window_rects(bsp_root, gap)
            grown == [k \in DOMAIN m |-> Grow(m[k], Half(gap))]
        IN  /\ \A a, b \in DOMAIN m : a # b => ~Overlap(m[a], m[b])
            /\ \A a \in DOMAIN m : Inside(m[a], screen_rect)
            /\ ExactCover(grown, screen_rect)
            /\ bsp_root.rect = screen_rect
            /\ InnerTiled(bsp_root)
C7_Witness ==
    /\ bsp_root # NoNode /\ Len(Leaves(bsp_root)) = 3 /\ gap > 0
    /\ op.name = "add_window" /\ current_layout = "BSP"
    /\ ~is_leaf(bsp_root.right)
    /\ bsp_root.is_horizontal = bsp_root.right.is_horizontal

\* A step that inserts the one id `id` into a tree that holds windows.
InsertsOne(id) ==
    /\ current_layout = "BSP" /\ bsp_root # NoNode
    /\ id \notin TreeIds(bsp_root)
    /\ \/ op'.name = "add_window" /\ op'.id = id
       \/ op'.name = "compute_layout"
          /\ IdsOf(op'.windows) = TreeIds(bsp_root) \cup {id}
\* C8 (BSP insert): an insert replaces the rightmost leaf, at depth d, by an inner
\* node with the previous occupant as left/top child and the new id as right/bottom
\* child, split left|right if d is even and top|bottom if d is odd, and changes no
\* other node; seeding W1 and inserting W2 on (0,0,1000,800), ratio 0.5, gap 10
\* gives W1 (5,5,490,790) and W2 (505,5,490,790).
C8_BSPInsert ==
    /\ [][\A id \in WindowId : InsertsOne(id) =>
            LET q == RightmostPath(bsp_root)
                was == NodeAt(bsp_root, q)
                n == NodeAt(bsp_root', q)
            IN  /\ q \in PathsOf(bsp_root') /\ ~is_leaf(n)
                /\ n.window_id = NoWindow
                /\ is_leaf(n.left) /\ n.left.window_id = was.window_id
                /\ is_leaf(n.right) /\ n.right.window_id = id
                /\ n.is_horizontal = (Len(q) % 2 = 0)
                /\ n.split_ratio = split_ratio
                /\ IF n.is_horizontal
                   THEN n.left.rect.x < n.right.rect.x /\ n.left.rect.y = n.right.rect.y
                   ELSE n.left.rect.y < n.right.rect.y /\ n.left.rect.x = n.right.rect.x
                /\ ReplaceAt(bsp_root', q, was) = bsp_root
         ]_layoutVars
    /\ []((/\ op.name = "add_window" /\ op.had = {1} /\ op.id = 2
           /\ current_layout = "BSP" /\ split_ratio = 50 /\ gap = Px(10)
           /\ screen_rect = PxRect(0, 0, 1000, 800))
          => collect_window_rects(bsp_root, gap)
               = (1 :> PxRect(5, 5, 490, 790) @@ 2 :> PxRect(505, 5, 490, 790)))
C8_Witness ==
    /\ op.name = "add_window" /\ current_layout = "BSP"
    /\ Cardinality(op.had) = 2 /\ Len(Leaves(bsp_root)) = 3
    /\ ~NodeAt(bsp_root, <<"R">>).is_horizontal

\* C9 (BSP remove): a remove deletes the leaf that holds the id and puts the
\* leaf's sibling subtree, unchanged in structure, in the place of their parent;
\* removing the only window leaves no tree; the other windows stay; the rectangles
\* are then reassigned from the screen rectangle, so removing W1 from the
\* two-window tree on (0,0,1000,800) with gap 10 leaves W2 at (5,5,990,790).
C9_BSPRemove ==
    /\ [][\A id \in WindowId :
            (/\ op'.name = "remove_window" /\ op'.id = id
             /\ current_layout = "BSP" /\ id \in TreeIds(bsp_root))
            => IF is_leaf(bsp_root)
               THEN bsp_root' = NoNode
               ELSE LET q == PathOfId(bsp_root, id)
                        sib == Sibling(bsp_root, q)
                    IN  /\ Skeleton(bsp_root') = Skeleton(ReplaceAt(bsp_root, Front(q), sib))
                        /\ TreeIds(bsp_root') = TreeIds(bsp_root) \ {id}
                        /\ bsp_root'.rect = screen_rect
                        /\ InnerTiled(bsp_root')
         ]_layoutVars
    /\ []((/\ op.name = "remove_window" /\ op.had = {1, 2} /\ op.id = 1
           /\ current_layout = "BSP" /\ gap = Px(10)
           /\ screen_rect = PxRect(0, 0, 1000, 800))
          => collect_window_rects(bsp_root, gap) = (2 :> PxRect(5, 5, 990, 790)))
C9_Witness ==
    /\ op.name = "remove_window" /\ current_layout = "BSP"
    /\ op.id \in op.had /\ Cardinality(op.had) = 3
    /\ bsp_root # NoNode /\ ~bsp_root.is_horizontal

\* C10 (layout coverage): in every mode, compute_layout on a non-empty list of
\* distinct windows returns a map whose keys are exactly the ids of the list,
\* whatever tree earlier calls and mode toggles left behind.
C10_LayoutCoverage ==
    (op.name = "compute_layout" /\ op.windows # <<>>)
        => DOMAIN layouts = IdsOf(op.windows)
C10_Witness ==
    /\ op.name = "compute_layout" /\ current_layout = "BSP"
    /\ op.had \ IdsOf(op.windows) # {}
    /\ IdsOf(op.windows) \ op.had # {}
    /\ DOMAIN layouts = IdsOf(op.windows)

\* ------------------------------------------- properties of the engine ----
\* The loop takes the WindowMoved event about `id` that heads the event channel.
HandlesMoved(id) ==
    /\ event_q # <<>>
    /\ Head(event_q).type = "WindowMoved"
    /\ Head(event_q).id = id
    /\ event_q' = Tail(event_q)

\* C1 (self-move invisibility): when the loop handles a WindowMoved event that
\* a set-rectangle call of the engine caused, it takes the programmatic branch:
\* the id was in programmatically_moving, the snap zones are not consulted, no
\* move is issued and no DragResult is produced.
C1_SelfMoveInvisible ==
    (obs.handler = "event" /\ obs.kind = "WindowMoved" /\ obs.cause = "engine")
        => /\ obs.was_moving
           /\ obs.branch = "programmatic"
           /\ ~obs.consulted
           /\ obs.moves = {}
           /\ obs.result = ""

\* C2 (drag bracketing): while id is in user_dragging_windows, that is between
\* the handling of DragStarted(id) and of DragEnded(id), handling a
\* WindowMoved(id, r) stores r and nothing else happens: the drag state of id
\* stays as it is, the snap zones are not consulted, no DragResult is produced
\* and no move is issued.
C2_DragBracketing ==
    [][\A id \in HostIds :
          (HandlesMoved(id) /\ id \in user_dragging_windows) =>
              /\ id \in DOMAIN window_drag_states
              /\ window_drag_states' = window_drag_states
              /\ user_dragging_windows' = user_dragging_windows
              /\ host' = host
              /\ obs'.moves = {}
              /\ ~obs'.consulted
              /\ obs'.result = ""
              /\ obs'.branch \in {"programmatic", "drag"}
              /\ previous_window_positions' =
                    Put(previous_window_positions, id, Head(event_q).rect)
              /\ windows' = IF id \in DOMAIN windows
                            THEN [windows EXCEPT ![id].rect = Head(event_q).rect]
                            ELSE windows]_vars

\* A WindowMoved of a dragged window has been handled as a drag update, and the
\* rectangle stored differs from the drag's initial_rect.
C2_Witness ==
    /\ obs.handler = "event"
    /\ obs.kind = "WindowMoved"
    /\ obs.was_dragging
    /\ obs.branch = "drag"
    /\ obs.id \in DOMAIN window_drag_states
    /\ obs.id \in DOMAIN windows
    /\ windows[obs.id].rect # window_drag_states[obs.id].initial_rect

\* C3 (mark before move): every set-rectangle call the loop's last iteration
\* issued, single or bulk, was made with its id in programmatically_moving.
C3_MarkedBeforeMove == \A m \in obs.moves : m.marked

\* MoveDirection has swapped the focused window with its neighbour: two calls.
C3_Witness ==
    /\ obs.handler = "command"
    /\ obs.kind = "MoveDirection"
    /\ Cardinality({m.id : m \in obs.moves}) = 2

\* C4 (Quit stops the engine): no iteration of the loop runs once a Quit command
\* has been taken.
C4_QuitStops == ~obs.after_quit

\* C5 (per-id order): the loop handles an event about a window only when no
\* event about that window, emitted earlier, still waits in the other channel.
C5_PerIdOrder == obs.in_order

\* --------------------------------------- properties of the other layouts ----
TilingModes == {"BSP", "Stack", "Grid", "Column", "Spiral"}

\* C11 (non-overlap): in the modes BSP, Stack, Grid, Column and Spiral any two
\* rectangles of the layout compute_layout returned have an intersection of
\* zero area.
C11_NonOverlap ==
    (op.name = "compute_layout" /\ current_layout \in TilingModes)
        => \A a, b \in DOMAIN layouts : a # b => ~Overlap(layouts[a], layouts[b])

\* A grid of three windows has been computed without gaps: two rows, the cells
\* touching each other.
C11_Witness ==
    /\ op.name = "compute_layout"
    /\ current_layout = "Grid"
    /\ gap = 0
    /\ Cardinality(DOMAIN layouts) = MaxWin
    /\ \E a, b \in DOMAIN layouts :
          /\ layouts[a].x + layouts[a].width = layouts[b].x
          /\ layouts[a].y = layouts[b].y
    /\ \E a, b \in DOMAIN layouts :
          layouts[a].y + layouts[a].height = layouts[b].y

\* The cycle of the modes, and the mode that follows `layout` in it.
Cycle == <<"BSP", "Stack", "Grid", "Spiral", "Column", "Monocle", "Float">>
Successor(layout) ==
    LET i == CHOOSE k \in DOMAIN Cycle : Cycle[k] = layout
    IN  Cycle[(i % Len(Cycle)) + 1]

\* The mode after k toggles from `layout`.
RECURSIVE Toggled(_, _)
Toggled(layout, k) == IF k = 0 THEN layout ELSE Toggled(toggle_layout(layout), k - 1)

\* C12 (toggle cycle): every toggle_layout call moves the mode to its successor
\* in BSP, Stack, Grid, Spiral, Column, Monocle, Float, BSP; seven toggles from
\* the mode reached visit every mode once and end in that mode.
C12_ToggleCycle ==
    [][op'.name = "toggle_layout" =>
          /\ current_layout' = Successor(current_layout)
          /\ {Toggled(current_layout', k) : k \in 0 .. Len(Cycle) - 1} = LayoutType
          /\ Cardinality(LayoutType) = Len(Cycle)
          /\ Toggled(current_layout', Len(Cycle)) = current_layout']_vars

\* The toggles have gone round: the last call was a toggle and it led to BSP,
\* the mode the manager started in.
C12_Witness == op.name = "toggle_layout" /\ current_layout = "BSP"


\* ---------------------------------------------------------------- C13 ----
\* What the specification says of a drag of window d that started at `initial`
\* and ends at `final` after `elapsed`: the distance between the two top-left
\* corners is below the threshold, or the drag lasted less than 100 ms.
Reaches(initial, final) ==
    LET dx == final.x - initial.x
        dy == final.y - initial.y
    IN  \/ Abs(dx) >= snap_threshold
        \/ Abs(dy) >= snap_threshold
        \/ dx * dx + dy * dy >= snap_threshold * snap_threshold
BelowThreshold(initial, final) == ~Reaches(initial, final)
TooShort(elapsed) == elapsed < min_time_ms * 1000
EndOf(o) == o.name = "end_window_drag" /\ o.id \in DOMAIN o.before
InitialOf(o) == o.before[o.id].initial_rect
Classified(o) ==
    drag_result_by_zone(snap_zones(screen_rect), InitialOf(o), o.id, o.final_rect,
                        o.windows)

\* C13 (drag threshold): end_window_drag on a drag whose top-left corner moved
\* less than snap_threshold, or which lasted less than 100 ms, returns
\* ReturnToOriginal(initial_rect); every other drag, one of exactly 100 ms and
\* one of exactly the threshold distance included, gets the result of the zone
\* classification.
C13_DragThreshold ==
    EndOf(op) =>
        IF BelowThreshold(InitialOf(op), op.final_rect) \/ TooShort(op.elapsed)
        THEN op.result = DragResult("ReturnToOriginal", InitialOf(op), NoWindow)
        ELSE op.result = Classified(op)

\* A drag of exactly the threshold distance, long enough, over another window
\* in the Center zone, is put back instead of swapped.
C13_AtThreshold ==
    /\ EndOf(op)
    /\ Reaches(InitialOf(op), op.final_rect)
    /\ ~FartherThan(op.final_rect.x - InitialOf(op).x,
                    op.final_rect.y - InitialOf(op).y, snap_threshold)
    /\ op.elapsed = 500000
    /\ Classified(op).kind = "SwapWithWindow"
    /\ op.result.kind = "ReturnToOriginal"


\* ---------------------------------------------------------------- C14 ----
\* The drag passed the threshold step of end_window_drag.
Qualifies(o) ==
    /\ EndOf(o)
    /\ lasted_long_enough(o.elapsed)
    /\ FartherThan(o.final_rect.x - InitialOf(o).x, o.final_rect.y - InitialOf(o).y,
                   snap_threshold)
ZoneOf(o) ==
    find_zone_at_point(snap_zones(screen_rect), center_x(o.final_rect),
                       center_y(o.final_rect))
\* The ids of the visible windows, other than the dragged one, whose rectangle
\* holds the centre of the dragged window.
Holding(o) ==
    LET cx == o.final_rect.x + o.final_rect.width \div 2
        cy == o.final_rect.y + o.final_rect.height \div 2
    IN  {o.windows[i].id : i \in
            {j \in DOMAIN o.windows :
                /\ o.windows[j].id # o.id
                /\ o.windows[j].rect.x <= cx
                /\ cx <= o.windows[j].rect.x + o.windows[j].rect.width
                /\ o.windows[j].rect.y <= cy
                /\ cy <= o.windows[j].rect.y + o.windows[j].rect.height}}
Restored(o) == o.result = DragResult("ReturnToOriginal", InitialOf(o), NoWindow)

\* C14 (Center-zone decision): a drag that passes the threshold step and ends
\* with its centre in the Center zone yields SwapWith(t), t a visible window
\* other than the dragged one that holds the centre, when there is one, and
\* Restore(initial_rect) otherwise; with the centre in no zone it yields
\* Restore(initial_rect).  No end_window_drag yields SwapWith of the dragged
\* window or of a window that does not hold the centre.
C14_CenterDecision ==
    /\ (Qualifies(op) /\ ZoneOf(op) = "Center") =>
            IF Holding(op) # {}
            THEN op.result.kind = "SwapWithWindow" /\ op.result.target \in Holding(op)
            ELSE Restored(op)
    /\ (Qualifies(op) /\ ZoneOf(op) = "None") => Restored(op)
    /\ (op.name = "end_window_drag" /\ op.result.kind = "SwapWithWindow") =>
            op.result.target \in Holding(op)

\* Window 1 is dragged to the line between the two lying windows: it is the
\* first in the list to hold the centre, and the swap is with window 2.
C14_Witness ==
    /\ Qualifies(op)
    /\ ZoneOf(op) = "Center"
    /\ op.id = 1
    /\ Len(op.windows) = 2
    /\ point_in_rect(center_x(op.final_rect), center_y(op.final_rect),
                     op.windows[1].rect)
    /\ op.windows[1].id = 1
    /\ op.result.kind = "SwapWithWindow"
    /\ op.result.target = 2


\* ---------------------------------------------------------------- C15 ----
\* The snap rectangle update_snap_zones gives the zone of a region.
SnapRectOf(region, screen) ==
    LET zones == snap_zones(screen)
    IN  zones[CHOOSE i \in DOMAIN zones : zones[i].region = region].snap_rect

WithinTen(a, b) ==
    /\ a.x - b.x <= Px(10) /\ b.x - a.x <= Px(10)
    /\ a.y - b.y <= Px(10) /\ b.y - a.y <= Px(10)
    /\ a.width - b.width <= Px(10) /\ b.width - a.width <= Px(10)
    /\ a.height - b.height <= Px(10) /\ b.height - a.height <= Px(10)

\* C15 (edge/corner decision, snap idempotence): a drag that passes the
\* threshold step and ends with its centre in an edge or corner zone yields
\* SnapTo(the zone's snap rectangle) when final_rect differs from that
\* rectangle by more than 10 px in x, y, width or height, and
\* Restore(initial_rect) when all four differ by at most 10 px.  On the screen
\* (0,0,1600,1000) a 500 ms drag from (100,100,400,300) into the West band
\* yields SnapTo((8,8,792,984)).
C15_EdgeDecision ==
    /\ (Qualifies(op) /\ ZoneOf(op) \in Edges \cup Corners) =>
            IF WithinTen(op.final_rect, SnapRectOf(ZoneOf(op), screen_rect))
            THEN Restored(op)
            ELSE op.result = DragResult("SnapToZone",
                                        SnapRectOf(ZoneOf(op), screen_rect), NoWindow)
    /\ ( /\ EndOf(op)
         /\ screen_rect = PxRect(0, 0, 1600, 1000)
         /\ InitialOf(op) = PxRect(100, 100, 400, 300)
         /\ op.elapsed = 500000
         /\ ZoneOf(op) = "West" ) =>
            op.result = DragResult("SnapToZone", PxRect(8, 8, 792, 984), NoWindow)

\* On the small screen a window released 7 px beside North's snap rectangle
\* is put back where the drag started.
C15_Witness ==
    /\ Qualifies(op)
    /\ ZoneOf(op) = "North"
    /\ op.final_rect # SnapRectOf("North", screen_rect)
    /\ WithinTen(op.final_rect, SnapRectOf("North", screen_rect))
    /\ Restored(op)
    /\ op.final_rect # InitialOf(op)

\* The West example on the large screen.
C15_WestExample ==
    /\ EndOf(op)
    /\ screen_rect = PxRect(0, 0, 1600, 1000)
    /\ InitialOf(op) = PxRect(100, 100, 400, 300)
    /\ op.elapsed = 500000
    /\ ZoneOf(op) = "West"
    /\ op.result = DragResult("SnapToZone", PxRect(8, 8, 792, 984), NoWindow)


\* ---------------------------------------------------------------- C16 ----
\* C16 (end without a drag): end_window_drag(id, ...) called while the snap
\* manager holds no drag state for id returns NoAction and changes nothing;
\* called while it holds one, it removes that entry and no other, whatever it
\* returns; so an end_window_drag(id, ...) that follows another one for the
\* same id with no start_window_drag between them returns NoAction.
C16_EndWithoutDrag ==
    [][op'.name = "end_window_drag" =>
          /\ IF op'.id \in DOMAIN window_drag_states
             THEN /\ window_drag_states' = Remove(window_drag_states, op'.id)
                  /\ op'.result.kind \in {"ReturnToOriginal", "SnapToZone",
                                          "SwapWithWindow"}
             ELSE /\ window_drag_states' = window_drag_states
                  /\ op'.result = NoAction
          /\ UNCHANGED snapOthers
          /\ (op.name = "end_window_drag" /\ op.id = op'.id)
                => op'.result = NoAction]_vars

\* An end_window_drag for a window with no drag state, while the other window
\* is being dragged: NoAction, and the other drag stays.
C16_Witness ==
    /\ op.name = "end_window_drag"
    /\ op.id \notin DOMAIN op.before
    /\ op.before # EmptyMap
    /\ window_drag_states = op.before
    /\ op.result = NoAction


\* ---------------------------------------------------------------- C17 ----
\* C17 (drag state lifecycle): once the loop has handled DragEnded(id), the
\* snap manager holds no drag state for id and id is not in
\* user_dragging_windows, whether or not id is in `windows` at that moment.
C17_DragStateLifecycle ==
    (obs.handler = "drag" /\ obs.kind = "DragEnded") =>
        /\ obs.id \notin DOMAIN window_drag_states
        /\ obs.id \notin user_dragging_windows

\* DragEnded was handled for a window that had left `windows` during the
\* drag, and the drag state is still there.
C17_Leftover ==
    /\ obs.handler = "drag"
    /\ obs.kind = "DragEnded"
    /\ obs.id \notin DOMAIN windows
    /\ obs.id \notin user_dragging_windows
    /\ is_window_dragging(window_drag_states, obs.id)


\* ---------------------------------------------------------------- C19 ----
\* The loop handles the DragEnded event about d that heads the drag channel,
\* and the snap manager answers SwapWithWindow.
SwapsAtDragEnd(d) ==
    /\ drag_q # <<>>
    /\ Head(drag_q).type = "DragEnded"
    /\ Head(drag_q).id = d
    /\ drag_q' = Tail(drag_q)
    /\ obs'.handler = "drag"
    /\ obs'.result = "SwapWithWindow"

\* C19 (swap execution): when the drag of window d ends with SwapWith(t), the
\* engine has both d and t in programmatically_moving when it issues the
\* moves, and the moves are exactly two: d to the rectangle t has, t to the
\* rectangle d had when the drag started.
C19_SwapExecution ==
    [][\A d \in HostIds :
          SwapsAtDragEnd(d) =>
              \E t \in HostIds \ {d} :
                  /\ host[t] # Absent
                  /\ obs'.moves =
                        {[id |-> d, rect |-> host[t].rect, marked |-> TRUE],
                         [id |-> t, rect |-> window_drag_states[d].initial_rect,
                          marked |-> TRUE]}
                  /\ {d, t} \subseteq programmatically_moving']_vars

\* A drag ended in a swap that moved both windows: the dragged window now
\* has the rectangle of the other, which has the dragged window's first one.
C19_Swapped ==
    /\ obs.handler = "drag"
    /\ obs.kind = "DragEnded"
    /\ obs.result = "SwapWithWindow"
    /\ Cardinality(obs.moves) = 2
    /\ \E t \in DOMAIN windows \ {obs.id} :
          /\ host[obs.id].rect = previous_window_positions[obs.id]
          /\ host[t].rect = previous_window_positions[t]
          /\ host[t].rect # host[obs.id].rect
          /\ host[obs.id].by = "engine"
          /\ host[t].by = "engine"

\* The dragged window was closed after its release: the drag ends with
\* SwapWithWindow, both ids are in programmatically_moving, and no move was
\* issued.
C19_MarkedUnmoved ==
    /\ obs.handler = "drag"
    /\ obs.kind = "DragEnded"
    /\ obs.result = "SwapWithWindow"
    /\ host[obs.id] = Absent
    /\ obs.moves = {}
    /\ obs.id \in programmatically_moving


\* ---------------------------------------------------------------- C20 ----
\* The moves that acting on a DragResult for window d amounts to: one move of
\* d for SnapTo and Restore, the two of the swap for SwapWith, none otherwise.
MovesOf(result, d) ==
    CASE result.kind \in {"SnapToZone", "ReturnToOriginal"} ->
            {[id |-> d, rect |-> result.rect]}
      [] result.kind = "SwapWithWindow" /\ host[result.target] # Absent ->
            {[id |-> d, rect |-> host[result.target].rect],
             [id |-> result.target, rect |-> result.rect]}
      [] OTHER -> {}

\* The visible windows the engine knows, id at r, listed in order ord.
VisibleWith(s, id, r) == Windows(set_rect(s, id, r), workspace_windows(s, s.windows))

\* What end_window_drag answers for a drag of id, long enough, from the stored
\* rectangle to r, among those windows.
AsDragEnd(id, r, ord) ==
    end_window_drag(snap_zones(screen_rect),
                    [initial_rect |-> previous_window_positions[id], is_dragging |-> TRUE],
                    id, r, VisibleWith(Entering(ord, TRUE), id, r), TRUE)

\* C20 (unsolicited move as single-shot drag): a WindowMoved(id, r) handled
\* while id is neither in programmatically_moving nor being dragged, for a
\* window with a stored rectangle, leads to the moves that the DragResult of
\* end_window_drag for a drag of id from the stored rectangle to r leads to.
C20_UnsolicitedAsDrag ==
    [][\A id \in HostIds :
          ( /\ HandlesMoved(id)
            /\ obs'.branch = "unsolicited"
            /\ id \in DOMAIN previous_window_positions )
          => \E ord \in Perms(HostIds) :
                {[id |-> m.id, rect |-> m.rect] : m \in obs'.moves}
                    = MovesOf(AsDragEnd(id, Head(event_q).rect, ord), id)]_vars

\* An unsolicited move of 10 px was handled and the window was left where
\* the user put it; the end of a drag would have put it back.
C20_LeftInPlace ==
    /\ obs.handler = "event"
    /\ obs.kind = "WindowMoved"
    /\ obs.branch = "unsolicited"
    /\ ~obs.consulted
    /\ obs.moves = {}
    /\ obs.id \in DOMAIN windows
    /\ windows[obs.id].rect = SpotNear
    /\ host[obs.id] # Absent
    /\ host[obs.id].rect = SpotNear


\* ---------------------------------------------------------------- C18 ----
\* The zones of the screen, in the order of the list, that hold the point and
\* are of one of `kinds`.
HitsAt(kinds, x, y) ==
    LET zones == snap_zones(screen_rect)
    IN  {i \in DOMAIN zones :
            /\ zones[i].region \in kinds
            /\ zones[i].bounds.x <= x
            /\ x <= zones[i].bounds.x + zones[i].bounds.width
            /\ zones[i].bounds.y <= y
            /\ y <= zones[i].bounds.y + zones[i].bounds.height}
FirstOf(hits) == snap_zones(screen_rect)[CHOOSE i \in hits : \A j \in hits : i <= j]
Looked(o) == o.name = "find_zone_at_point"
ProbeX(o) == o.final_rect.x + o.final_rect.width \div 2
ProbeY(o) == o.final_rect.y + o.final_rect.height \div 2

\* C18 (zone lookup order): the zone found for a point is the first corner
\* zone that holds it, else the first edge zone that holds it, else the
\* Center zone if it holds it, else none; so a point in a corner square and an
\* edge band gets the corner, a point in an edge band and the Center zone gets
\* the edge.  The snap rectangle found for a window is that of the zone found
\* for its centre, and none when no zone is found.
C18_LookupOrder ==
    Looked(op) =>
        LET corners == HitsAt(Corners, ProbeX(op), ProbeY(op))
            edges == HitsAt(Edges, ProbeX(op), ProbeY(op))
            center == HitsAt({"Center"}, ProbeX(op), ProbeY(op))
        IN  /\ op.result.region =
                  IF corners # {} THEN FirstOf(corners).region
                  ELSE IF edges # {} THEN FirstOf(edges).region
                  ELSE IF center # {} THEN "Center"
                  ELSE "None"
            /\ op.result.snap.region = op.result.region
            /\ op.result.region # "None"
                  => op.result.snap.snap_rect = SnapRectOf(op.result.region, screen_rect)

\* A point on the line a corner square shares with an edge band is given the
\* corner.
C18_Witness ==
    /\ Looked(op)
    /\ HitsAt(Corners, ProbeX(op), ProbeY(op)) # {}
    /\ HitsAt(Edges, ProbeX(op), ProbeY(op)) # {}
    /\ op.result.region \in Corners

\* A point in an edge band and in the Center zone is given the edge.
C18_EdgeOverCenter ==
    /\ Looked(op)
    /\ HitsAt(Edges, ProbeX(op), ProbeY(op)) # {}
    /\ HitsAt({"Center"}, ProbeX(op), ProbeY(op)) # {}
    /\ op.result.region \in Edges

\* A point where two edge bands cross is given the one listed first.
C18_CrossingBands ==
    /\ Looked(op)
    /\ Cardinality(HitsAt(Edges, ProbeX(op), ProbeY(op))) = 2
    /\ op.result.region = "North"

\* A point in no zone.
C18_NoZone == Looked(op) /\ op.result.region = "None" /\ op.result.snap = NoZone


\* ---------------------------------------------------------------- C21 ----
FocusedIds == {id \in DOMAIN windows : windows[id].is_focused}
\* The windows of the World Model on workspace w that are not minimized.
NonMinimizedOn(w) ==
    {id \in DOMAIN windows : ~windows[id].is_minimized /\ windows[id].workspace_id = w}

\* C21 (effective workspace fallback): get_effective_current_workspace returns
\* the workspace of the focused window when a window is focused; otherwise a
\* workspace id holding the greatest number of non-minimized windows when there
\* is a non-minimized window; otherwise the workspace the engine stored last
\* (the host's last answer, 1 before the first).
C21_EffectiveWorkspace ==
    op.name = "get_effective_current_workspace" =>
        IF FocusedIds # {}
        THEN \E id \in FocusedIds : op.result = windows[id].workspace_id
        ELSE IF \E w \in Workspaces : NonMinimizedOn(w) # {}
        THEN /\ NonMinimizedOn(op.result) # {}
             /\ \A w \in Workspaces :
                   Cardinality(NonMinimizedOn(w)) <= Cardinality(NonMinimizedOn(op.result))
        ELSE op.result = current_workspace

\* No window is focused, one is minimized, and the answer is the workspace of
\* the two that are not.
C21_Witness ==
    /\ op.name = "get_effective_current_workspace"
    /\ FocusedIds = {}
    /\ \E id \in DOMAIN windows :
          windows[id].is_minimized /\ windows[id].workspace_id # op.result
    /\ Cardinality(NonMinimizedOn(op.result)) = 2

\* ---------------------------------------------------------------- C22 ----
\* C22 (effective workspace is never 0): whatever workspace ids the snapshot
\* reported for the windows and whatever workspace the engine stored,
\* get_effective_current_workspace never returns 0.
C22_NeverZero ==
    op.name = "get_effective_current_workspace" => op.result # 0

\* The snapshot reported workspace 0 for the only window; nothing is focused or
\* minimized, and the effective workspace is 0 while the stored one is not.
C22_ZeroFromSnapshot ==
    /\ op.name = "get_effective_current_workspace"
    /\ DOMAIN windows = {1}
    /\ windows[1] = WorldWindow(1, Mid, 0, FALSE)
    /\ current_workspace # 0
    /\ op.result = 0

\* ---------------------------------------------------------------- C23 ----
\* The centre of candidate c seen from the centre of the focused rectangle f,
\* in grid steps: the squared Euclidean distance d2 and the weight num / den =
\* 1 + (perpendicular_delta / max(primary_delta, 1)) * 0.5.  On the grid a
\* primary delta that is not 0 is at least 100 px, so max(primary_delta, 1) is
\* the primary delta.
Steps(v) == v \div Px(100)
Weighed(c, f, direction) ==
    LET dx == Abs(Steps(center_x(c) - center_x(f)))
        dy == Abs(Steps(center_y(c) - center_y(f)))
        primary == IF direction \in {"Left", "Right"} THEN dx ELSE dy
        perpendicular == IF direction \in {"Left", "Right"} THEN dy ELSE dx
    IN  [d2 |-> dx * dx + dy * dy, num |-> 2 * primary + perpendicular,
         den |-> 2 * primary]

\* sqrt(a.d2) * a.num / a.den < sqrt(b.d2) * b.num / b.den, both sides squared.
WeighsLess(a, b) ==
    a.d2 * a.num * a.num * b.den * b.den < b.d2 * b.num * b.num * a.den * a.den

\* Candidate a is preferred to candidate b: the smaller weighted distance, on
\* equal ones the smaller Euclidean distance, on equal ones the lower id.
Preferred(a, b, f, direction) ==
    LET wa == Weighed(windows[a].rect, windows[f].rect, direction)
        wb == Weighed(windows[b].rect, windows[f].rect, direction)
    IN  \/ WeighsLess(wa, wb)
        \/ /\ ~WeighsLess(wb, wa)
           /\ wa.d2 < wb.d2 \/ (wa.d2 = wb.d2 /\ a < b)

\* The non-minimized windows of the focused window's workspace, other than the
\* focused one, whose centre lies strictly in the half-plane of `direction`.
CandidatesOf(f, direction) ==
    {c \in DOMAIN windows \ {f} :
        /\ ~windows[c].is_minimized
        /\ windows[c].workspace_id = windows[f].workspace_id
        /\ CASE direction = "Left" ->
                    center_x(windows[c].rect) < center_x(windows[f].rect)
             [] direction = "Right" ->
                    center_x(windows[c].rect) > center_x(windows[f].rect)
             [] direction = "Up" ->
                    center_y(windows[c].rect) < center_y(windows[f].rect)
             [] direction = "Down" ->
                    center_y(windows[c].rect) > center_y(windows[f].rect)}

DirectionCall == op.name \in {"FocusDirection", "MoveDirection"}

\* C23 (directional selection): FocusDirection(d) and MoveDirection(d) select,
\* among the candidates in the half-plane of d, the one with the least
\* Euclidean distance times directional weight, ties going to the smaller
\* Euclidean distance and then to the lowest id; with no focused window or no
\* candidate nothing is selected and no Window Control call is made.
C23_DirectionalSelection ==
    DirectionCall =>
        IF FocusedIds = {} \/ \A f \in FocusedIds : CandidatesOf(f, op.direction) = {}
        THEN op.result = NoWindow /\ op.calls = {}
        ELSE \E f \in FocusedIds :
                /\ op.result \in CandidatesOf(f, op.direction)
                /\ \A o \in CandidatesOf(f, op.direction) \ {op.result} :
                      Preferred(op.result, o, f, op.direction)

\* The focused window is at Mid; to its right are a window at East (200 px
\* away on the axis, weighted distance 200) and one at NorthEast (141 px away,
\* weighted distance 212), and the command took the one at NorthEast.
C23_NearerOffAxis ==
    /\ DirectionCall
    /\ op.direction = "Right"
    /\ \E f \in FocusedIds :
          /\ windows[f].rect = Mid
          /\ \E e \in CandidatesOf(f, "Right") : windows[e].rect = East
          /\ op.result \in CandidatesOf(f, "Right")
          /\ windows[op.result].rect = NorthEast
          /\ op.calls # {}

\* ---------------------------------------------------------------- C24 ----
\* C24 (determinism of the directional selection): for the rectangles and the
\* focus of the World Model at hand, find_window_in_direction gives the target
\* the command took in whatever order the map is iterated.
C24_SameTargetInAnyOrder ==
    DirectionCall =>
        \A ord \in Perms(WindowId) :
            find_window_in_direction(Entering(ord, TRUE), op.direction) = op.result

\* The two candidates at NorthEast and SouthEast are equally far from the
\* focused window at Mid, nothing else is to its right, and the command took
\* the one with the higher id.
C24_OrderDecides ==
    /\ DirectionCall
    /\ op.direction = "Right"
    /\ \E f \in FocusedIds :
          /\ windows[f].rect = Mid
          /\ {windows[c].rect : c \in CandidatesOf(f, "Right")} = {NorthEast, SouthEast}
          /\ \E c \in CandidatesOf(f, "Right") : c < op.result

\* ---------------------------------------------------------------- C25 ----
\* The rectangle stored for id after a step of the loop is the one the host
\* showed when the handler took its snapshot.
FromSnapshot(id) ==
    /\ obs'.handler \in {"start", "tick"}
    /\ host[id] # Absent
    /\ windows'[id].rect = host[id].rect

\* It is the rectangle an event about id reported (WindowCreated carries the
\* window of the monitoring task's snapshot).
FromObserved(id) ==
    \/ /\ obs'.handler = "event"
       /\ obs'.kind \in {"WindowCreated", "WindowMoved"}
       /\ obs'.id = id
       /\ windows'[id].rect = Head(event_q).rect
    \/ /\ obs'.handler = "drag"
       /\ obs'.kind = "DragEnded"
       /\ obs'.id = id
       /\ windows'[id].rect = Head(drag_q).rect

\* It is the rectangle of a set-rectangle call of the handler for id that the
\* host carried out.
FromMove(id) ==
    /\ obs'.accepted
    /\ host[id] # Absent
    /\ \E call \in obs'.moves : call.id = id /\ call.rect = windows'[id].rect

\* C25 (stored rectangles): a step changes the rectangle stored for a window
\* (or stores the first one) only to the rectangle of a snapshot, to an
\* observed rectangle, or to the rectangle of a programmatic move that
\* succeeded; a set-rectangle that failed or was skipped stores nothing.
C25_StoredRectSources ==
    [][\A id \in DOMAIN windows' :
          \/ id \in DOMAIN windows /\ windows'[id].rect = windows[id].rect
          \/ FromSnapshot(id)
          \/ FromObserved(id)
          \/ FromMove(id)]_vars

\* run has started against a host that refused every call: a window is stored
\* at its tile while the host still shows it where the user left it.
C25_StoredButRefused ==
    /\ obs.handler = "start"
    /\ ~obs.accepted
    /\ \E id \in DOMAIN windows :
          /\ host[id] # Absent
          /\ host[id].by = "user"
          /\ windows[id].rect # host[id].rect
          /\ \E call \in obs.moves : call.id = id /\ call.rect = windows[id].rect

\* ---------------------------------------------------------------- C26 ----
\* The loop's last handler applied the layout exactly once.
LayoutApplied ==
    \/ obs.handler = "command" /\ obs.kind = "ToggleLayout"
    \/ obs.handler = "event" /\ obs.kind = "WindowCreated"

\* The windows the layout application had a set-rectangle call for and the
\* host has.
Addressed == {id \in DOMAIN windows : host[id] # Absent /\ \E call \in obs.moves : call.id = id}

\* C26 (move retry policy): in one layout application a window whose
\* set-rectangle succeeds is tried once, and a window whose set-rectangle
\* fails every time is tried three times, by retries of the single move or by
\* the per-window moves a failed bulk move falls back to; a window that was
\* given up does not keep the others from being tried.
C26_RetryPolicy ==
    LayoutApplied =>
        \A id \in Addressed : obs.attempts[id] = IF obs.accepted THEN 1 ELSE 3

\* The host refused the calls of a layout application of two windows, and each
\* window was tried once.
C26_TriedOnce ==
    /\ LayoutApplied
    /\ ~obs.accepted
    /\ Cardinality(Addressed) = 2
    /\ \A id \in Addressed : obs.attempts[id] = 1

\* ---------------------------------------------------------------- C27 ----
\* C27 (a Window Control failure does not take the engine down): after a
\* handler in which a Window Control call returned an error, run is still in
\* its loop, where the events, commands and drag events that wait in the
\* channels and the next tick are handled.
C27_LoopSurvives == obs.move_err => pc = "loop"

\* A command's move_window returned Err, handle_command returned it, and the
\* loop is about to handle the event that waits in the event channel.
C27_Witness ==
    /\ obs.handler = "command"
    /\ obs.move_err
    /\ returned_err(obs, obs.handler, obs.kind)
    /\ pc = "loop"
    /\ event_q # <<>>

\* ---------------------------------------------------------------- C28 ----
\* The loop takes a tick of the refresh timer.
Ticks ==
    /\ pc = "loop"
    /\ obs'.handler = "tick"
    /\ UNCHANGED <<event_q, command_q, drag_q, last_windows, dragging_windows, spent>>

\* The ids of the snapshot get_windows returns.
SnapshotIds == {id \in HostIds : host[id] # Absent}

\* C28 (stale windows are dropped): after a periodic refresh the key set of
\* the World Model is the id set of the snapshot the refresh took, and the
\* refresh returned no error, whatever ids have vanished or appeared.
C28_RefreshDropsStale ==
    [][Ticks => DOMAIN windows' = SnapshotIds /\ pc' = "loop"]_vars

\* A refresh has dropped a window the user closed before the monitoring task
\* reported it.
C28_Witness ==
    /\ obs.handler = "tick"
    /\ \E id \in HostIds :
          /\ host[id] = Absent
          /\ last_windows[id] # Absent
          /\ id \in DOMAIN previous_window_positions
          /\ id \notin DOMAIN windows
    /\ DOMAIN windows = SnapshotIds

\* ---------------------------------------------------------------- C29 ----
\* user_dragging_windows holds the ids whose last drag event to reach the
\* engine was DragStarted: the DragStarted arm inserts the id, the DragEnded
\* arm removes it, and nothing else writes the set.
\* C29 (alternation of the drag events): of the drag events that reach the
\* engine about one id, a DragStarted comes first or after a DragEnded, and a
\* DragEnded comes after a DragStarted, whatever will-move and did-move
\* notifications the host produces and however full the drag channel is.
C29_Alternation ==
    obs.handler = "drag" =>
        /\ obs.kind = "DragStarted" => ~obs.was_dragging
        /\ obs.kind = "DragEnded" => obs.was_dragging

\* The engine has been told of a drag of a window that the observer no longer
\* holds as dragged, and no event about the window is on its way: the
\* DragEnded was dropped at the full channel, and no DragEnded will follow
\* this DragStarted.
C29_EndLost ==
    \E id \in user_dragging_windows :
        /\ id \notin dragging_windows
        /\ \A i \in DOMAIN drag_q : drag_q[i].id # id
        /\ obs.handler = "drag"
        /\ obs.kind = "DragStarted"
        /\ obs.id = id
        /\ ~obs.was_dragging

\* ---------------------------------------------------------------- C30 ----
\* The records of application p in input order, and the places of its
\* tileable windows in the host's list.
RecordsOf(p) == SelectSeq(op.windows, LAMBDA w : w.owner_pid = p)
TileablePlaces(p) ==
    SelectSeq([i \in DOMAIN op.apps[p] |-> i], LAMBDA i : op.apps[p][i])
PairsOf(p) == 1 .. Min(Len(RecordsOf(p)), Len(TileablePlaces(p)))
CallsOn(p, place) ==
    {k \in DOMAIN op.calls : op.calls[k].element = [pid |-> p, place |-> place]}

\* C30 (bulk move matching): for every application p the i-th record of p is
\* paired with the i-th tileable host window of p, for i up to the smaller of
\* the two counts; a paired record whose id is a key of the mapping has its
\* rectangle set on the paired window exactly once; every other host window
\* gets no call.
C30_BulkMatching ==
    op.name = "move_all_windows" =>
        \A p \in AppPids :
            /\ \A i \in PairsOf(p) :
                  IF RecordsOf(p)[i].id \in DOMAIN op.layouts
                  THEN \E k \in DOMAIN op.calls :
                          /\ CallsOn(p, TileablePlaces(p)[i]) = {k}
                          /\ op.calls[k].rect = op.layouts[RecordsOf(p)[i].id]
                  ELSE CallsOn(p, TileablePlaces(p)[i]) = {}
            /\ \A place \in DOMAIN op.apps[p] :
                  (\A i \in PairsOf(p) : TileablePlaces(p)[i] # place)
                      => CallsOn(p, place) = {}

\* An application with two records, the first of them second in the input, has
\* one tileable window, the second of its list: that window got the rectangle
\* of the application's first record, and nothing else was set.
C30_Witness ==
    /\ op.name = "move_all_windows"
    /\ \E p \in AppPids :
          /\ Len(RecordsOf(p)) = 2
          /\ op.windows[1].owner_pid # p
          /\ op.apps[p] = <<FALSE, TRUE>>
          /\ Len(op.calls) = 1
          /\ op.calls[1] = [element |-> [pid |-> p, place |-> 2],
                            id |-> op.windows[2].id,
                            rect |-> op.layouts[op.windows[2].id]]

\* ---------------------------------------------------------------- C31 ----
\* The last handler the loop ran was the WindowFocused arm.
FocusHandled == obs.handler = "event" /\ obs.kind = "WindowFocused"

\* C31 as stated (single focus): whenever the loop has finished a handler at
\* most one record of the World Model is focused, and after WindowFocused(id)
\* the record of id is the focused one.
C31_FocusedIsTheId ==
    /\ Cardinality(FocusedIds) <= 1
    /\ FocusHandled => FocusedIds = {obs.id}

\* C31 (single focus): whenever the loop has finished a handler at most one
\* record of the World Model is focused; after WindowFocused(id) no record
\* other than id is focused, and id is when the World Model has a record of it.
C31_SingleFocus ==
    /\ Cardinality(FocusedIds) <= 1
    /\ FocusHandled => FocusedIds = {obs.id} \cap DOMAIN windows

\* WindowFocused(id) was handled with two records in the World Model and left
\* id the focused one.
C31_Witness ==
    /\ FocusHandled
    /\ Cardinality(DOMAIN windows) >= 2
    /\ FocusedIds = {obs.id}

\* WindowFocused(id) was handled after a refresh had dropped the record of id:
\* no record is focused.
C31_FocusOnDropped ==
    /\ FocusHandled
    /\ obs.id \notin DOMAIN windows
    /\ windows # EmptyMap
    /\ FocusedIds = {}

\* ---------------------------------------------------------------- C32 ----
\* The window ids of the leaves of a tree, left to right.
LeafOrder(node) == SelectSeq(LeafIds(node), LAMBDA id : id # NoWindow)
ListIds(window_list) == [i \in DOMAIN window_list |-> window_list[i].id]
\* This step is a compute_layout in BSP mode over a non-empty window list.
BSPComputes ==
    /\ op'.name = "compute_layout"
    /\ current_layout = "BSP"
    /\ op'.windows # <<>>

\* C32 (BSP sync): a BSP compute over a non-empty list L leaves a tree whose
\* leaves hold exactly the ids of L, one leaf each; the ids it held before and
\* still holds keep their left-to-right order; when it held none of them (no
\* tree, or a tree emptied by the removals) the leaves are L in order, the
\* first window of L the seed.
C32_BSPSync ==
    [][BSPComputes =>
        LET before == LeafOrder(bsp_root)
            after == LeafIds(bsp_root')
            L == ListIds(op'.windows)
            kept == SelectSeq(before, LAMBDA id : id \in Range(L))
        IN  /\ Range(after) = Range(L)
            /\ Injective(after)
            /\ SelectSeq(after, LAMBDA id : id \in Range(before)) = kept
            /\ kept = <<>> => after = L]_vars

\* A BSP compute found a tree holding a window of the list and one not of it,
\* with the list holding a window the tree did not have.
C32_Witness ==
    /\ op.name = "compute_layout"
    /\ current_layout = "BSP"
    /\ op.had \cap IdsOf(op.windows) # {}
    /\ op.had \ IdsOf(op.windows) # {}
    /\ IdsOf(op.windows) \ op.had # {}
    /\ TreeIds(bsp_root) = IdsOf(op.windows)

\* ---------------------------------------------------------------- C33 ----
InBounds(ratio) == RatioDen \div 10 <= ratio /\ ratio <= (9 * RatioDen) \div 10
\* The ids the last call inserted into the tree.
InsertedIds ==
    CASE op.name = "add_window" -> {op.id} \cap TreeIds(bsp_root)
      [] op.name = "compute_layout" /\ current_layout = "BSP" ->
            IdsOf(op.windows) \ op.had
      [] OTHER -> {}
ParentOf(id) == NodeAt(bsp_root, Front(PathOfId(bsp_root, id)))

\* C33 (split ratio bounds): the layout manager's split ratio lies between 0.1
\* and 0.9 for every configured ratio in (0,1) and after any adjust and reset
\* calls, and the inner node an insert created carries that ratio.
C33_SplitRatioBounds ==
    /\ InBounds(split_ratio)
    /\ \A id \in InsertedIds :
          PathOfId(bsp_root, id) # <<>> =>
              /\ ParentOf(id).split_ratio = split_ratio
              /\ InBounds(ParentOf(id).split_ratio)

\* With the configured ratio 0.05 an add_window has created an inner node that
\* carries 0.05.
C33_BelowTenth ==
    /\ op.name = "add_window"
    /\ op.had # {}
    /\ ParentOf(op.id).split_ratio = 5
    /\ split_ratio = 5
    /\ ~InBounds(split_ratio)

\* ---------------------------------------------------------------- C34 ----
\* The node at path q of the tree has two children or none, holds no window
\* id when it has children, and holds one when it is a leaf other than the root.
WellShapedAt(q) ==
    LET node == NodeAt(bsp_root, q)
    IN  /\ (node.left = NoNode) = (node.right = NoNode)
        /\ ~is_leaf(node) => node.window_id = NoWindow
        /\ is_leaf(node) /\ node.window_id = NoWindow => q = <<>>

\* C34 (BSP tree shape): in every tree reached by add_window, remove_window and
\* compute_layout calls each node has two children or none, no inner node holds
\* a window id, and every leaf holds one except a root that is the only node.
C34_TreeShape == \A q \in PathsOf(bsp_root) : WellShapedAt(q)

\* A removal from a tree of three windows left a tree of two: the emptied leaf
\* is gone and its sibling took the place of their parent.
C34_Witness ==
    /\ op.name = "remove_window"
    /\ current_layout = "BSP"
    /\ Cardinality(op.had) = 3
    /\ op.id \in op.had
    /\ Cardinality(PathsOf(bsp_root)) = 3
    /\ TreeIds(bsp_root) = op.had \ {op.id}

\* ---------------------------------------------------------------- C35 ----
\* The last call was a compute_layout in Monocle mode over a non-empty list.
MonocleComputed ==
    /\ op.name = "compute_layout"
    /\ current_layout = "Monocle"
    /\ op.windows # <<>>

\* C35 (Monocle): in Monocle mode, for every non-empty window list, screen
\* rectangle and gap, every window of the list is assigned exactly the full
\* screen rectangle.
C35_MonocleFullScreen ==
    MonocleComputed =>
        /\ DOMAIN layouts = IdsOf(op.windows)
        /\ \A id \in DOMAIN layouts : layouts[id] = screen_rect

\* With gap 10 on the screen (0,0,1000,800) two windows were each assigned
\* (10,10,980,780).
C35_InsetByGap ==
    /\ MonocleComputed
    /\ gap = Px(10)
    /\ Len(op.windows) = 2
    /\ \A id \in IdsOf(op.windows) : layouts[id] = PxRect(10, 10, 980, 780)

\* ---------------------------------------------------------------- C36 ----
\* The entries of the window cache that hold element e.
EntriesHolding(e) ==
    {window_id \in DOMAIN op.ax.window_cache : op.ax.window_cache[window_id] = e}

\* C36 (retain/release balance): after every cache refresh, single move, bulk
\* move and drop, for every accessibility element the retains taken minus the
\* releases made equal the number of cache entries that hold the element,
\* WindowId collisions during the refresh included.
C36_RetainBalance ==
    \A e \in Elements : op.ax.held[e] = Cardinality(EntriesHolding(e))

\* A refresh met a WindowId collision and the fallback id was itself a key of
\* the cache: an element is retained once and no entry holds it.
C36_Leaked ==
    /\ op.name = "refresh_window_cache"
    /\ op.ax.collided
    /\ op.ax.replaced
    /\ \E e \in Elements : op.ax.held[e] = 1 /\ EntriesHolding(e) = {}

\* ---------------------------------------------------------------- C37 ----
\* A move of window id by the engine is still to be reported or handled: the
\* monitoring task has yet to see the rectangle the engine set, or the
\* WindowMoved it sent for it waits in the channel.
MoveOutstanding(id) ==
    \/ /\ host[id] # Absent
       /\ host[id].by = "engine"
       /\ last_windows[id] # Absent
       /\ last_windows[id] # host[id].rect
    \/ \E i \in DOMAIN event_q :
          /\ event_q[i].type = "WindowMoved"
          /\ event_q[i].id = id
          /\ event_q[i].cause = "engine"

\* C37 (no stale self-move marker): every id in programmatically_moving has a
\* set-rectangle behind it whose WindowMoved is still to be handled, and a
\* WindowMoved that a user move caused is never taken as a programmatic one.
C37_NoStaleMarker ==
    /\ \A id \in programmatically_moving : MoveOutstanding(id)
    /\ (obs.handler = "event" /\ obs.kind = "WindowMoved" /\ obs.cause = "user")
          => obs.branch # "programmatic"

\* The WindowMoved of a user's move found the id marked, with no move of the
\* engine outstanding, and was taken as a programmatic move: nothing was
\* snapped or restored.
C37_UserMoveAbsorbed ==
    /\ obs.handler = "event"
    /\ obs.kind = "WindowMoved"
    /\ obs.cause = "user"
    /\ obs.was_moving
    /\ obs.branch = "programmatic"
    /\ obs.moves = {}
    /\ ~obs.consulted

\* ---------------------------------------------------------------- C38 ----
\* C38 (axis parity): in every tree reached by inserts and removes every inner
\* node at depth d splits horizontally (left | right) when d is even and
\* vertically when d is odd.
C38_AxisParity ==
    \A q \in PathsOf(bsp_root) :
        ~is_leaf(NodeAt(bsp_root, q)) =>
            NodeAt(bsp_root, q).is_horizontal = (Len(q) % 2 = 0)

\* Removing the first of three windows promoted the inner node of the other
\* two to the root: the root, at depth 0, splits vertically.
C38_PromotedKeepsAxis ==
    /\ op.name = "remove_window"
    /\ current_layout = "BSP"
    /\ Cardinality(op.had) = 3
    /\ TreeIds(bsp_root) = op.had \ {op.id}
    /\ ~is_leaf(bsp_root)
    /\ ~bsp_root.is_horizontal

\* ---------------------------------------------------------------- C39 ----
\* The rectangle each window has once apply_layout has run with the map
\* iterated in the order ord.
LayoutTargets(ord) ==
    LET s == apply_layout(Entering(ord, TRUE))
    IN  [id \in DOMAIN s.windows |-> s.windows[id].rect]

\* C39 (targets do not depend on the iteration order): in every state, a
\* layout application gives every window the same rectangle whichever order
\* the World Model map is iterated in.
C39_OrderIndependent ==
    \A o1, o2 \in Perms(HostIds) : LayoutTargets(o1) = LayoutTargets(o2)

\* Two windows in Stack mode: the window the iteration yields first becomes
\* the master, so two orders give window-for-window different rectangles.
C39_MasterByOrder ==
    /\ current_layout = "Stack"
    /\ Cardinality(DOMAIN windows) = 2
    /\ \E o1, o2 \in Perms(HostIds) :
          \A id \in DOMAIN windows : LayoutTargets(o1)[id] # LayoutTargets(o2)[id]

\* ---------------------------------------------------------------- C40 ----
\* C40 (a periodic refresh preserves the per-window flags): a tick of the
\* refresh timer leaves is_focused and is_minimized of every window present
\* before and after it as they were.
C40_RefreshKeepsFlags ==
    [][Ticks =>
         \A id \in DOMAIN windows \cap DOMAIN windows' :
            /\ windows'[id].is_focused = windows[id].is_focused
            /\ windows'[id].is_minimized = windows[id].is_minimized]_vars

\* A tick has replaced the records by those of the snapshot: windows are
\* known and none of them is focused.
C40_FocusForgotten ==
    /\ obs.handler = "tick"
    /\ DOMAIN windows # {}
    /\ FocusedIds = {}

============================================================================
